---- MODULE Spec2Model ----
(***************************************************************************)
(* A model of github.com/bassosimone/nop: composable network operations.   *)
(*                                                                         *)
(* The module holds several specifications over one set of variables:      *)
(*   SpecCompose  the Compose2..Compose8 pipelines of compose.go           *)
(*   SpecConn     Close of the connection wrappers stacked on one conn     *)
(*   SpecDial     one ConnectFunc.Call                                     *)
(*   SpecTLS      NewTLSHandshakeFunc and repeated TLSHandshakeFunc.Call   *)
(*   SpecBody     one wrapped HTTP response body                           *)
(*   SpecHTTP     one HTTPConnFunc.Call, its transport and round trips     *)
(*   SpecDNS      Exchange calls on one DNS wrapper                        *)
(*   SpecRun      one Connect, Observe, CancelWatch, TLS pipeline run      *)
(*   SpecApply    Apply over the pipelines of compose.go                   *)
(*   SpecSpan     successive NewSpanID calls                               *)
(*   SpecObs      one observed connection and the calls made on it         *)
(* Each specification drives its own group of variables and leaves the     *)
(* other groups at their initial value.                                    *)
(***************************************************************************)
EXTENDS Integers, Sequences, FiniteSets, TLC

VARIABLES
    \* ---- compose.go: one pipeline run ----
    nStages,        \* arity of the pipeline (Compose2..Compose8)
    stageOutcome,   \* what each stage's Call does: "ok", "err", "errWithOutput"
    composePc,      \* position of the run: [at |-> "op1"|"op2"|"done", lvl |-> nesting level]
    res,            \* the value flowing from one stage to the next
    invoked,        \* sequence of the stages whose Call was invoked, in order
    pipeRet         \* what the outermost compose2.Call returned: [out, err]

composeVars == <<nStages, stageOutcome, composePc, res, invoked, pipeRet>>

VARIABLES
    \* ---- one connection and the wrappers stacked on it ----
    layers,         \* the stack, bottom to top: layers[1] is the raw connection
    rawErr,         \* what the raw connection's Close returns when it closes
    built,          \* the pipeline has returned the top wrapper to the caller
    ctxDone,        \* the context bound by CancelWatchFunc is done
    afterFunc,      \* state of the context.AfterFunc registration and its goroutine
    stack,          \* per thread: the Close calls in progress, innermost last
    closeCalls,     \* per layer: how many times its Close was invoked
    closeRets,      \* per layer: what its Close calls returned, in order of return
    returned,       \* per caller thread: results of its Close calls on the top wrapper
    onceDone,       \* observedConn.closeonce: done flag
    onceLock,       \* observedConn.closeonce: the thread inside Do, or NoThread
    connLog,        \* log events emitted by the observed connection
    idleClosed      \* number of calls of HTTPConn.closeIdleFunc

connVars == <<layers, rawErr, built, ctxDone, afterFunc, stack, closeCalls,
              closeRets, returned, onceDone, onceLock, connLog, idleClosed>>

VARIABLES
    \* ---- connect.go: one ConnectFunc.Call ----
    connectIn,      \* the call's configuration and input: network, address, deadline
    dialOutcome,    \* what Dialer.DialContext does when it is called
    connectPc,      \* position inside Call
    connectT0,      \* t0 := op.TimeNow()
    connectClock,   \* the clock behind op.TimeNow
    dialCalls,      \* the DialContext invocations: network, address, deadline
    dialRet,        \* conn, err as returned by DialContext
    connectLog,     \* the log events emitted by Call
    connectRet      \* what Call returned: [conn, err], or NotReturned

dialVars == <<connectIn, dialOutcome, connectPc, connectT0, connectClock,
              dialCalls, dialRet, connectLog, connectRet>>

VARIABLES
    \* ---- tls.go: NewTLSHandshakeFunc and TLSHandshakeFunc.Call ----
    tlsIn,          \* the call's environment: handshake result, state, deadline, classifier
    tlsOpConfig,    \* op.Config, the caller-supplied *tls.Config
    tlsEngineConfig,\* the configuration handed to Engine.Client
    tlsPc,          \* position inside Call
    tlsT0,          \* t0 := op.TimeNow()
    tlsClock,       \* the clock behind op.TimeNow
    tlsErr,         \* err := tconn.HandshakeContext(ctx)
    tlsLog,         \* the log events emitted by Call
    tlsRet,         \* what Call returned: [conn, err], or NotReturned
    tlsConnCloses,  \* number of Close calls on the TLS connection
    rawCloses,      \* number of Close calls on the raw connection given to Call
    rawReads        \* results of the Reads on the raw connection after Call

tlsVars == <<tlsIn, tlsOpConfig, tlsEngineConfig, tlsPc, tlsT0, tlsClock, tlsErr,
             tlsLog, tlsRet, tlsConnCloses, rawCloses, rawReads>>

VARIABLES
    \* ---- httpbody.go: one wrapped response body ----
    bodyCloseErr,   \* what the underlying body's Close returns
    bodyPc,         \* per thread: position inside Read or Close, or "idle"
    bodyCalls,      \* per thread: the calls it made, "Read" or "Close", in order
    bodyRets,       \* per thread: the errors its calls returned, in order
    didRead,        \* httpBodyWrapper.didRead
    bodyT0,         \* httpBodyWrapper.t0
    bodyClock,      \* the clock behind timeNow
    readOnce,       \* httpBodyWrapper.readOnce: [done, lock]
    closeOnce,      \* httpBodyWrapper.closeOnce: [done, lock]
    bodyErr,        \* err inside the function Close hands to closeOnce.Do
    bodyClosed,     \* the underlying body was closed
    bodyTrace       \* log events and calls on the underlying body, in order

bodyVars == <<bodyCloseErr, bodyPc, bodyCalls, bodyRets, didRead, bodyT0, bodyClock,
              readOnce, closeOnce, bodyErr, bodyClosed, bodyTrace>>

VARIABLES
    \* ---- endpoint.go: one HTTPConnFunc.Call and the transport it builds ----
    httpIn,         \* the input connection: its kind and negotiated protocol
    httpPc,         \* position of the call: "call" or "returned"
    httpRet,        \* what Call returned: [hc, err]
    sudConn,        \* per single-use dialer: the connection it still holds
    httpDials       \* the invocations of the transport's dial hooks, in order

VARIABLES
    \* ---- endpoint.go: RoundTrip calls on the returned HTTPConn ----
    rtPc,           \* position inside HTTPConn.RoundTrip, or "idle"
    rtTrace,        \* the log events and the calls of collaborators, in order
    rtRets          \* what the RoundTrip calls returned, in order: [resp, err]

httpVars == <<httpIn, httpPc, httpRet, sudConn, httpDials, rtPc, rtTrace, rtRets>>

VARIABLES
    \* ---- the DNS wrappers: Exchange calls on one wrapper ----
    dnsIn,          \* the wrapper: its kind ("udp", "tcp", "dot", "doh") and the callers' deadline
    dnsPc,          \* per caller: position inside Exchange, or "idle"
    dnsCall,        \* per caller: how many Exchange calls it has started
    dnsRqr,         \* per caller: "var rqr []byte" of its Exchange in progress
    dnsT0,          \* per caller: t0 of its Exchange in progress
    dnsErr,         \* per caller: err of its Exchange in progress
    dnsClock,       \* per caller: the clock behind TimeNow as that caller reads it
    dnsTrace,       \* per caller: its log events and calls of collaborators, in order
    dnsRets         \* per caller: what its Exchange calls returned, in order

dnsVars == <<dnsIn, dnsPc, dnsCall, dnsRqr, dnsT0, dnsErr, dnsClock, dnsTrace, dnsRets>>

VARIABLES
    \* ---- one run of a Connect, Observe, CancelWatch, TLSHandshake pipeline ----
    runCtx,         \* the context the caller gave to the pipeline's Call
    runPc,          \* position of the goroutine that runs the pipeline
    runStageCtx,    \* the contexts compose2 gave to the stages, in order
    runCollabCtx,   \* the contexts the stages gave to their collaborators: [callee, ctx]
    runLog,         \* the events on the shared logger: [msg, op, thr, err]
    runCtxDone,     \* the caller's context is done
    runCb,          \* state of the context.AfterFunc registration and its goroutine
    runOnce,        \* observedConn.closeonce: "free", the goroutine inside Do, or "done"
    runClosed,      \* the raw connection is closed
    runIO,          \* number of Read/Write calls the handshake has made
    runIOKind,      \* "read" or "write": the call on the observed connection in progress
    runErr,         \* the error of the last Read/Write, then of the handshake
    runRet          \* what the pipeline returned: [conn, err], or NotReturned

runVars == <<runCtx, runPc, runStageCtx, runCollabCtx, runLog, runCtxDone, runCb,
             runOnce, runClosed, runIO, runIOKind, runErr, runRet>>

VARIABLES
    \* ---- spanid.go: NewSpanID calls in one process ----
    spanLast,       \* the generator's last timestamp-and-sequence value
    spanReads,      \* the clock readings of the calls, in order
    spanIDs         \* the identifiers returned, in order

spanVars == <<spanLast, spanReads, spanIDs>>

VARIABLES
    \* ---- observeconn.go: one observed connection and its caller ----
    obsOp,          \* the ObserveConnFunc: its ErrClassifier
    obsConn,        \* the underlying connection: addresses, network, closed or not
    obsWrap,        \* the observedConn: wrapped or not, laddr, protocol, raddr, closeonce
    obsClock,       \* the clock behind TimeNow
    obsTrace,       \* log events and calls on the underlying connection, in order
    obsAddrQueries, \* who asked the underlying connection for an address, in order
    obsRets         \* what the calls on the observed connection returned, in order

obsVars == <<obsOp, obsConn, obsWrap, obsClock, obsTrace, obsAddrQueries, obsRets>>

vars == <<composeVars, connVars, dialVars, tlsVars, bodyVars, httpVars, dnsVars, runVars,
          spanVars, obsVars>>

\* the variables each specification leaves alone
notCompose == <<connVars, dialVars, tlsVars, bodyVars, httpVars, dnsVars, runVars, spanVars, obsVars>>
notConn == <<composeVars, dialVars, tlsVars, bodyVars, httpVars, dnsVars, runVars, spanVars, obsVars>>
notDial == <<composeVars, connVars, tlsVars, bodyVars, httpVars, dnsVars, runVars, spanVars, obsVars>>
notTLS == <<composeVars, connVars, dialVars, bodyVars, httpVars, dnsVars, runVars, spanVars, obsVars>>
notBody == <<composeVars, connVars, dialVars, tlsVars, httpVars, dnsVars, runVars, spanVars, obsVars>>
notHTTP == <<composeVars, connVars, dialVars, tlsVars, bodyVars, dnsVars, runVars, spanVars, obsVars>>
notDNS == <<composeVars, connVars, dialVars, tlsVars, bodyVars, httpVars, runVars, spanVars, obsVars>>
notRun == <<composeVars, connVars, dialVars, tlsVars, bodyVars, httpVars, dnsVars, spanVars, obsVars>>
notSpan == <<composeVars, connVars, dialVars, tlsVars, bodyVars, httpVars, dnsVars, runVars, obsVars>>
notObs == <<composeVars, connVars, dialVars, tlsVars, bodyVars, httpVars, dnsVars, runVars,
           spanVars>>

Range(s) == {s[i] : i \in DOMAIN s}

\* ------------------------------------------------------------------------
\* Values
\* ------------------------------------------------------------------------

\* error values: nil, or the error stage k returns
Nil == 0
StageErr(k) == k

\* the zero value of an output type ("var zero C")
Zero == 0

\* the input handed to the pipeline
PipelineInput == 100

\* errors of the connection layer: net.ErrClosed, and some other error
\* the raw connection's Close may report
ErrClosed == 1000
ErrIO == 1001

\* ------------------------------------------------------------------------
\* The threads: two callers of the top wrapper and the goroutine that
\* context.AfterFunc starts for the cancellation callback
\* ------------------------------------------------------------------------

Users == {"u1", "u2"}
Callback == "cb"
Threads == Users \cup {Callback}
NoThread == "none"

\* ------------------------------------------------------------------------
\* The value each group of variables keeps while another specification runs
\* ------------------------------------------------------------------------

ComposeIdle ==
    /\ nStages = 2
    /\ stageOutcome = [k \in 1..2 |-> "ok"]
    /\ composePc = [at |-> "done", lvl |-> 1]
    /\ res = 0
    /\ invoked = <<>>
    /\ pipeRet = [out |-> 0, err |-> 0]

ConnIdle ==
    /\ layers = <<"netconn">>
    /\ rawErr = 0
    /\ built = FALSE
    /\ ctxDone = FALSE
    /\ afterFunc = "unregistered"
    /\ stack = [t \in Threads |-> <<>>]
    /\ closeCalls = [i \in 1..1 |-> 0]
    /\ closeRets = [i \in 1..1 |-> <<>>]
    /\ returned = [t \in Users |-> <<>>]
    /\ onceDone = FALSE
    /\ onceLock = NoThread
    /\ connLog = <<>>
    /\ idleClosed = 0

DialIdle ==
    /\ connectIn = [network |-> "tcp", addr |-> [ip |-> "", v6 |-> FALSE, port |-> 0],
                    deadline |-> 0, classifier |-> "errclass"]
    /\ dialOutcome = "ok"
    /\ connectPc = "idle"
    /\ connectT0 = 0
    /\ connectClock = 0
    /\ dialCalls = <<>>
    /\ dialRet = [conn |-> "nil", err |-> 0]
    /\ connectLog = <<>>
    /\ connectRet = [conn |-> "nil", err |-> 0]

TLSIdle ==
    /\ tlsIn = [err |-> 0, peerCerts |-> <<>>, alpn |-> "", deadline |-> 0,
                classifier |-> "errclass"]
    /\ tlsOpConfig = "nil"
    /\ tlsEngineConfig = "nil"
    /\ tlsPc = "idle"
    /\ tlsT0 = 0
    /\ tlsClock = 0
    /\ tlsErr = 0
    /\ tlsLog = <<>>
    /\ tlsRet = [conn |-> "nil", err |-> 0]
    /\ tlsConnCloses = 0
    /\ rawCloses = 0
    /\ rawReads = <<>>

BodyThreads == {"a", "b"}

BodyIdle ==
    /\ bodyCloseErr = 0
    /\ bodyPc = [t \in BodyThreads |-> "idle"]
    /\ bodyCalls = [t \in BodyThreads |-> <<>>]
    /\ bodyRets = [t \in BodyThreads |-> <<>>]
    /\ didRead = FALSE
    /\ bodyT0 = 0
    /\ bodyClock = 0
    /\ readOnce = [done |-> FALSE, lock |-> NoThread]
    /\ closeOnce = [done |-> FALSE, lock |-> NoThread]
    /\ bodyErr = 0
    /\ bodyClosed = FALSE
    /\ bodyTrace = <<>>

HTTPIdle ==
    /\ httpIn = [kind |-> "plain", alpn |-> ""]
    /\ httpPc = "idle"
    /\ httpRet = [hc |-> "nil", err |-> 0]
    /\ sudConn = <<>>
    /\ httpDials = <<>>
    /\ rtPc = "idle"
    /\ rtTrace = <<>>
    /\ rtRets = <<>>

DNSIdle ==
    /\ dnsIn = [kind |-> "udp", deadline |-> 0]
    /\ dnsPc = [t \in Users |-> "idle"]
    /\ dnsCall = [t \in Users |-> 0]
    /\ dnsRqr = [t \in Users |-> <<>>]
    /\ dnsT0 = [t \in Users |-> 0]
    /\ dnsErr = [t \in Users |-> 0]
    /\ dnsClock = [t \in Users |-> 0]
    /\ dnsTrace = [t \in Users |-> <<>>]
    /\ dnsRets = [t \in Users |-> <<>>]

RunIdle ==
    /\ runCtx = [id |-> "caller", deadline |-> 0]
    /\ runPc = "idle"
    /\ runStageCtx = <<>>
    /\ runCollabCtx = <<>>
    /\ runLog = <<>>
    /\ runCtxDone = FALSE
    /\ runCb = "unregistered"
    /\ runOnce = "free"
    /\ runClosed = FALSE
    /\ runIO = 0
    /\ runIOKind = "none"
    /\ runErr = 0
    /\ runRet = [conn |-> "none", err |-> 0]

SpanIdle ==
    /\ spanLast = 0
    /\ spanReads = <<>>
    /\ spanIDs = <<>>

ObsIdle ==
    /\ obsOp = [ErrClassifier |-> "errclass"]
    /\ obsConn = [laddr |-> "", raddr |-> "", network |-> "", keepsAddr |-> TRUE,
                  closeErr |-> 0, closed |-> FALSE]
    /\ obsWrap = [wrapped |-> FALSE, laddr |-> "", protocol |-> "", raddr |-> "",
                  closeonce |-> FALSE]
    /\ obsClock = 0
    /\ obsTrace = <<>>
    /\ obsAddrQueries = <<>>
    /\ obsRets = <<>>

IdleButCompose == ConnIdle /\ DialIdle /\ TLSIdle /\ BodyIdle /\ HTTPIdle /\ DNSIdle /\ RunIdle /\ SpanIdle /\ ObsIdle
IdleButConn == ComposeIdle /\ DialIdle /\ TLSIdle /\ BodyIdle /\ HTTPIdle /\ DNSIdle /\ RunIdle /\ SpanIdle /\ ObsIdle
IdleButDial == ComposeIdle /\ ConnIdle /\ TLSIdle /\ BodyIdle /\ HTTPIdle /\ DNSIdle /\ RunIdle /\ SpanIdle /\ ObsIdle
IdleButTLS == ComposeIdle /\ ConnIdle /\ DialIdle /\ BodyIdle /\ HTTPIdle /\ DNSIdle /\ RunIdle /\ SpanIdle /\ ObsIdle
IdleButBody == ComposeIdle /\ ConnIdle /\ DialIdle /\ TLSIdle /\ HTTPIdle /\ DNSIdle /\ RunIdle /\ SpanIdle /\ ObsIdle
IdleButHTTP == ComposeIdle /\ ConnIdle /\ DialIdle /\ TLSIdle /\ BodyIdle /\ DNSIdle /\ RunIdle /\ SpanIdle /\ ObsIdle
IdleButDNS == ComposeIdle /\ ConnIdle /\ DialIdle /\ TLSIdle /\ BodyIdle /\ HTTPIdle /\ RunIdle /\ SpanIdle /\ ObsIdle
IdleButRun == ComposeIdle /\ ConnIdle /\ DialIdle /\ TLSIdle /\ BodyIdle /\ HTTPIdle /\ DNSIdle /\ SpanIdle /\ ObsIdle
IdleButSpan == ComposeIdle /\ ConnIdle /\ DialIdle /\ TLSIdle /\ BodyIdle /\ HTTPIdle /\ DNSIdle /\ RunIdle /\ ObsIdle
IdleButObs == ComposeIdle /\ ConnIdle /\ DialIdle /\ TLSIdle /\ BodyIdle /\ HTTPIdle /\ DNSIdle /\ RunIdle /\ SpanIdle

\* ------------------------------------------------------------------------
\* compose.go
\* ------------------------------------------------------------------------

\* Compose8 is the largest combinator
MaxArity == 8
MinArity == 2

StageOutcomes == {"ok", "err", "errWithOutput"}

\* Func.Call of stage k on the given input: a stage is any Func (FuncAdapter
\* lifts an arbitrary function), so a failing stage may or may not return
\* the zero output together with its error.
FuncCall(k, input) ==
    CASE stageOutcome[k] = "ok"            -> [out |-> input + 1, err |-> Nil]
      [] stageOutcome[k] = "err"           -> [out |-> Zero,      err |-> StageErr(k)]
      [] stageOutcome[k] = "errWithOutput" -> [out |-> input + 1, err |-> StageErr(k)]

InitCompose ==
    /\ nStages \in MinArity..MaxArity
    /\ stageOutcome \in [1..nStages -> StageOutcomes]
    /\ composePc = [at |-> "op1", lvl |-> 1]
    /\ res = PipelineInput
    /\ invoked = <<>>
    /\ pipeRet = [out |-> Zero, err |-> Nil]
    /\ IdleButCompose

\* mutant: compose2.Call ignores op1's error and goes on to op2
compose2_Call_op1_NoShortCircuit(d) ==
    /\ composePc = [at |-> "op1", lvl |-> d]
    /\ LET r == FuncCall(d, res) IN
        /\ invoked' = Append(invoked, d)
        /\ res' = r.out
        /\ composePc' = IF d = nStages - 1
                        THEN [at |-> "op2", lvl |-> d]
                        ELSE [at |-> "op1", lvl |-> d + 1]
        /\ UNCHANGED pipeRet
    /\ UNCHANGED <<nStages, stageOutcome, notCompose>>

\* mutant: compose2.Call returns op1's output together with op1's error
compose2_Call_op1_KeepsOutput(d) ==
    /\ composePc = [at |-> "op1", lvl |-> d]
    /\ LET r == FuncCall(d, res) IN
        /\ invoked' = Append(invoked, d)
        /\ IF r.err # Nil
           THEN /\ pipeRet' = r
                /\ composePc' = [at |-> "done", lvl |-> d]
                /\ UNCHANGED res
           ELSE /\ res' = r.out
                /\ composePc' = IF d = nStages - 1
                                THEN [at |-> "op2", lvl |-> d]
                                ELSE [at |-> "op1", lvl |-> d + 1]
                /\ UNCHANGED pipeRet
    /\ UNCHANGED <<nStages, stageOutcome, notCompose>>

\* compose2.Call, first half: the compose2 at nesting level d (its op1 is
\* stage d) calls op1; on error it returns the zero value and the error,
\* and every enclosing compose2 returns that result unchanged (each of them
\* is in "return c.op2.Call(ctx, res)"). Otherwise the result is fed to op2,
\* which is the compose2 at level d+1 or, innermost, the last stage.
compose2_Call_op1(d) ==
    /\ composePc = [at |-> "op1", lvl |-> d]
    /\ LET r == FuncCall(d, res) IN
        /\ invoked' = Append(invoked, d)
        /\ IF r.err # Nil
           THEN /\ pipeRet' = [out |-> Zero, err |-> r.err]
                /\ composePc' = [at |-> "done", lvl |-> d]
                /\ UNCHANGED res
           ELSE /\ res' = r.out
                /\ composePc' = IF d = nStages - 1
                                THEN [at |-> "op2", lvl |-> d]
                                ELSE [at |-> "op1", lvl |-> d + 1]
                /\ UNCHANGED pipeRet
    /\ UNCHANGED <<nStages, stageOutcome, notCompose>>

\* compose2.Call, second half, innermost level: "return c.op2.Call(ctx, res)"
\* with op2 the last stage; its result is returned as it is.
compose2_Call_op2(d) ==
    /\ composePc = [at |-> "op2", lvl |-> d]
    /\ d = nStages - 1
    /\ LET r == FuncCall(nStages, res) IN
        /\ invoked' = Append(invoked, nStages)
        /\ pipeRet' = r
        /\ composePc' = [at |-> "done", lvl |-> d]
        /\ UNCHANGED res
    /\ UNCHANGED <<nStages, stageOutcome, notCompose>>

\* the ways of building a pipeline of the stages i..j out of Compose2
\* alone: <<k>> is stage k, <<l, r>> is Compose2(l, r)
RECURSIVE Bracketings(_, _)
Bracketings(i, j) ==
    IF i = j THEN {<<i>>}
    ELSE UNION {{<<l, r>> : l \in Bracketings(i, k), r \in Bracketings(k + 1, j)} :
                k \in i..(j - 1)}

\* Call on a Func built as such a tree: a stage's own Call, or
\* compose2.Call, which calls op1, returns the zero value and the error if
\* op1 failed, and otherwise returns what op2 returns on op1's output.
\* The result lists the stages invoked, in order.
RECURSIVE TreeCall(_, _)
TreeCall(tree, input) ==
    IF Len(tree) = 1
    THEN LET r == FuncCall(tree[1], input)
         IN  [out |-> r.out, err |-> r.err, invoked |-> <<tree[1]>>]
    ELSE LET r1 == TreeCall(tree[1], input)
         IN  IF r1.err # Nil
             THEN [out |-> Zero, err |-> r1.err, invoked |-> r1.invoked]
             ELSE LET r2 == TreeCall(tree[2], r1.out)
                  IN  [out |-> r2.out, err |-> r2.err,
                       invoked |-> r1.invoked \o r2.invoked]

\* Compose3..Compose8: ComposeN(op_i..op_j) is Compose2(op_i, ComposeN-1(...)),
\* the right fold of the stages i..j
RECURSIVE RightFold(_, _)
RightFold(i, j) == IF i = j THEN <<i>> ELSE <<<<i>>, RightFold(i + 1, j)>>

NextCompose ==
    \/ \E d \in 1..(MaxArity - 1) : compose2_Call_op1(d)
    \/ \E d \in 1..(MaxArity - 1) : compose2_Call_op2(d)

SpecCompose == InitCompose /\ [][NextCompose]_vars

\* ------------------------------------------------------------------------
\* Connections and the wrappers stacked on them: Close
\*
\* A stack is a raw connection and the wrappers built on it by a pipeline,
\* in the order of the package's examples: ObserveConnFunc, CancelWatchFunc,
\* then an HTTPConn or a DNS wrapper. Every Close call is a frame on its
\* thread's call stack: "enter" (called, body not yet run), "wait" (inside
\* the Close of the layer beneath), "after" (that Close returned into err).
\* ------------------------------------------------------------------------

\* Close calls each caller thread makes on the top wrapper
MaxCloseCalls == 2

\* a net.Conn of the standard library (a second Close returns net.ErrClosed)
\* or a netstub.FuncConn whose CloseFunc returns the same value every time
RawKinds == {"netconn", "stub"}

Middles == {<<>>, <<"observe">>, <<"cancelwatch">>, <<"observe", "cancelwatch">>}

Tops == {<<>>, <<"httpconn">>, <<"dnsudp">>, <<"dnstcp">>, <<"dnstls">>,
         <<"httpconn", "doh">>}

Stacks == {<<r>> \o m \o t : r \in RawKinds, m \in Middles, t \in Tops}
              \ {<<r>> : r \in RawKinds}

TopLayer == Len(layers)
HasLayer(kind) == \E i \in DOMAIN layers : layers[i] = kind
LayerOf(kind) == CHOOSE i \in DOMAIN layers : layers[i] = kind

\* the connection CancelWatchFunc.Call received: cancelWatchedConn.Conn
WatchedLayer == LayerOf("cancelwatch") - 1

InitConn ==
    /\ layers \in Stacks
    /\ rawErr \in {Nil, ErrIO}
    /\ built = ~HasLayer("cancelwatch")
    /\ ctxDone = FALSE
    /\ afterFunc = "unregistered"
    /\ stack = [t \in Threads |-> <<>>]
    /\ closeCalls = [i \in DOMAIN layers |-> 0]
    /\ closeRets = [i \in DOMAIN layers |-> {}]
    /\ returned = [t \in Users |-> <<>>]
    /\ onceDone = FALSE
    /\ onceLock = NoThread
    /\ connLog = <<>>
    /\ idleClosed = 0
    /\ IdleButConn

Frame(i) == [layer |-> i, pc |-> "enter", err |-> Nil, ran |-> FALSE]

\* the innermost Close call in progress on thread t
Cur(t) == stack[t][Len(stack[t])]

\* thread t is at position pc of the Close of a layer of the given kind
Running(t, kind, pc) ==
    /\ stack[t] # <<>>
    /\ layers[Cur(t).layer] = kind
    /\ Cur(t).pc = pc

ReplaceCur(t, f) == SubSeq(stack[t], 1, Len(stack[t]) - 1) \o <<f>>

\* the current Close calls Close on the layer beneath it
CallInner(t, f) ==
    stack' = [stack EXCEPT ![t] =
                 ReplaceCur(t, [f EXCEPT !.pc = "wait"]) \o <<Frame(f.layer - 1)>>]

\* the current Close returns e: to the Close that called it, to the caller
\* thread, or to the callback goroutine, which discards it and ends
Return(t, e, ran) ==
    LET f == Cur(t)
        rest == SubSeq(stack[t], 1, Len(stack[t]) - 1)
    IN  /\ closeRets' = [closeRets EXCEPT ![f.layer] = @ \cup {[err |-> e, ran |-> ran]}]
        /\ IF rest = <<>>
           THEN /\ stack' = [stack EXCEPT ![t] = <<>>]
                /\ IF t = Callback
                   THEN afterFunc' = "finished" /\ UNCHANGED returned
                   ELSE /\ returned' = [returned EXCEPT ![t] = Append(@, e)]
                        /\ UNCHANGED afterFunc
           ELSE /\ stack' = [stack EXCEPT ![t] =
                                SubSeq(rest, 1, Len(rest) - 1) \o
                                <<[rest[Len(rest)] EXCEPT !.pc = "after", !.err = e]>>]
                /\ UNCHANGED <<returned, afterFunc>>

Invoked(i) == closeCalls' = [closeCalls EXCEPT ![i] = @ + 1]

\* ---- the context and context.AfterFunc ----

\* the context becomes done (cancel, or its deadline passes)
context_Cancel ==
    /\ HasLayer("cancelwatch")
    /\ ~ctxDone
    /\ ctxDone' = TRUE
    /\ UNCHANGED <<layers, rawErr, built, afterFunc, stack, closeCalls, closeRets,
                   returned, onceDone, onceLock, connLog, idleClosed, notConn>>

\* a done context starts the registered function in its own goroutine,
\* unless stop() got there first
context_AfterFunc_fire ==
    /\ ctxDone
    /\ afterFunc = "registered"
    /\ afterFunc' = "spawned"
    /\ UNCHANGED <<layers, rawErr, built, ctxDone, stack, closeCalls, closeRets,
                   returned, onceDone, onceLock, connLog, idleClosed, notConn>>

\* mutant: a context that is already done when Call runs is not watched
CancelWatchFunc_Call_MissesDone ==
    /\ HasLayer("cancelwatch")
    /\ ~built
    /\ afterFunc' = IF ctxDone THEN "unregistered" ELSE "registered"
    /\ built' = TRUE
    /\ UNCHANGED <<layers, rawErr, ctxDone, stack, closeCalls, closeRets,
                   returned, onceDone, onceLock, connLog, idleClosed, notConn>>

\* mutant: Call starts the closing goroutine whether or not the context is
\* done
CancelWatchFunc_Call_ClosesAtOnce ==
    /\ HasLayer("cancelwatch")
    /\ ~built
    /\ afterFunc' = "spawned"
    /\ built' = TRUE
    /\ UNCHANGED <<layers, rawErr, ctxDone, stack, closeCalls, closeRets,
                   returned, onceDone, onceLock, connLog, idleClosed, notConn>>

\* CancelWatchFunc.Call: context.AfterFunc(ctx, func() { conn.Close() });
\* with a context that is already done the goroutine is started at once
CancelWatchFunc_Call ==
    /\ HasLayer("cancelwatch")
    /\ ~built
    /\ afterFunc' = IF ctxDone THEN "spawned" ELSE "registered"
    /\ built' = TRUE
    /\ UNCHANGED <<layers, rawErr, ctxDone, stack, closeCalls, closeRets,
                   returned, onceDone, onceLock, connLog, idleClosed, notConn>>

\* mutant: the callback goroutine ends without closing the connection
afterFunc_run_NoClose ==
    /\ afterFunc = "spawned"
    /\ afterFunc' = "finished"
    /\ UNCHANGED <<layers, rawErr, built, ctxDone, stack, closeCalls, closeRets,
                   returned, onceDone, onceLock, connLog, idleClosed, notConn>>

\* the callback goroutine runs: func() { conn.Close() }
afterFunc_run ==
    /\ afterFunc = "spawned"
    /\ afterFunc' = "running"
    /\ stack' = [stack EXCEPT ![Callback] = <<Frame(WatchedLayer)>>]
    /\ UNCHANGED <<layers, rawErr, built, ctxDone, closeCalls, closeRets,
                   returned, onceDone, onceLock, connLog, idleClosed, notConn>>

\* a caller thread calls Close on the wrapper the pipeline returned
caller_Close(t) ==
    /\ t \in Users
    /\ built
    /\ stack[t] = <<>>
    /\ Len(returned[t]) < MaxCloseCalls
    /\ stack' = [stack EXCEPT ![t] = <<Frame(TopLayer)>>]
    /\ UNCHANGED <<layers, rawErr, built, ctxDone, afterFunc, closeCalls, closeRets,
                   returned, onceDone, onceLock, connLog, idleClosed, notConn>>

\* ---- cancelWatchedConn ----

\* mutant: stop never deregisters the callback
stop_Noop(st) == st

\* context.AfterFunc's stop function: deregisters the callback if it was not
\* started yet, and is a no-op otherwise
stop(st) == IF st = "registered" THEN "stopped" ELSE st

\* mutant: Close closes the connection only if stop() deregistered the
\* callback, and reports net.ErrClosed otherwise
cancelWatchedConn_Close_OnlyIfStopped(t) ==
    /\ Running(t, "cancelwatch", "enter")
    /\ Invoked(Cur(t).layer)
    /\ IF afterFunc = "registered"
       THEN /\ afterFunc' = "stopped"
            /\ CallInner(t, Cur(t))
            /\ UNCHANGED <<closeRets, returned>>
       ELSE Return(t, ErrClosed, FALSE)
    /\ UNCHANGED <<layers, rawErr, built, ctxDone,
                   onceDone, onceLock, connLog, idleClosed, notConn>>

\* cancelWatchedConn.Close: c.stop(), then c.Conn.Close()
cancelWatchedConn_Close(t) ==
    /\ Running(t, "cancelwatch", "enter")
    /\ Invoked(Cur(t).layer)
    /\ afterFunc' = stop(afterFunc)
    /\ CallInner(t, Cur(t))
    /\ UNCHANGED <<layers, rawErr, built, ctxDone, closeRets, returned,
                   onceDone, onceLock, connLog, idleClosed, notConn>>

\* cancelWatchedConn.Close: return c.Conn.Close()
cancelWatchedConn_Close_return(t) ==
    /\ Running(t, "cancelwatch", "after")
    /\ Return(t, Cur(t).err, TRUE)
    /\ UNCHANGED <<layers, rawErr, built, ctxDone, closeCalls,
                   onceDone, onceLock, connLog, idleClosed, notConn>>

\* ---- observedConn ----

\* observedConn.Close: err = net.ErrClosed, before c.closeonce.Do
observedConn_Close(t) ==
    /\ Running(t, "observe", "enter")
    /\ Invoked(Cur(t).layer)
    /\ stack' = [stack EXCEPT ![t] =
                    ReplaceCur(t, [Cur(t) EXCEPT !.pc = "once", !.err = ErrClosed])]
    /\ UNCHANGED <<layers, rawErr, built, ctxDone, afterFunc, closeRets, returned,
                   onceDone, onceLock, connLog, idleClosed, notConn>>

\* sync.Once.Do: whether this call gets to run the function. A call that
\* arrives while another one is inside Do waits for it to finish.
onceEnters(done, lock) == ~done /\ lock = NoThread
onceSkips(done, lock) == done

\* mutant: no sync.Once, every call logs and closes the underlying connection
observedConn_Close_once_Unguarded(t) ==
    /\ Running(t, "observe", "once")
    /\ onceLock' = t
    /\ connLog' = Append(connLog, "closeStart")
    /\ CallInner(t, [Cur(t) EXCEPT !.ran = TRUE])
    /\ UNCHANGED <<closeRets, returned, afterFunc>>
    /\ UNCHANGED <<layers, rawErr, built, ctxDone, closeCalls,
                   onceDone, idleClosed, notConn>>

\* mutant: a Close that finds another call inside closeonce.Do returns at
\* once instead of waiting for it
observedConn_Close_once_NoWait(t) ==
    /\ Running(t, "observe", "once")
    /\ \/ /\ onceDone \/ onceLock # NoThread
          /\ Return(t, Cur(t).err, FALSE)
          /\ UNCHANGED <<onceLock, connLog>>
       \/ /\ onceEnters(onceDone, onceLock)
          /\ onceLock' = t
          /\ connLog' = Append(connLog, "closeStart")
          /\ CallInner(t, [Cur(t) EXCEPT !.ran = TRUE])
          /\ UNCHANGED <<closeRets, returned, afterFunc>>
    /\ UNCHANGED <<layers, rawErr, built, ctxDone, closeCalls,
                   onceDone, idleClosed, notConn>>

\* observedConn.Close: c.closeonce.Do(...): either the call is not the first
\* and returns err as it is, or it logs closeStart and calls c.conn.Close()
observedConn_Close_once(t) ==
    /\ Running(t, "observe", "once")
    /\ \/ /\ onceSkips(onceDone, onceLock)
          /\ Return(t, Cur(t).err, FALSE)
          /\ UNCHANGED <<onceLock, connLog>>
       \/ /\ onceEnters(onceDone, onceLock)
          /\ onceLock' = t
          /\ connLog' = Append(connLog, "closeStart")
          /\ CallInner(t, [Cur(t) EXCEPT !.ran = TRUE])
          /\ UNCHANGED <<closeRets, returned, afterFunc>>
    /\ UNCHANGED <<layers, rawErr, built, ctxDone, closeCalls,
                   onceDone, idleClosed, notConn>>

\* observedConn.Close: err = c.conn.Close() has returned; log closeDone,
\* leave the Once and return err
observedConn_Close_done(t) ==
    /\ Running(t, "observe", "after")
    /\ connLog' = Append(connLog, "closeDone")
    /\ onceDone' = TRUE
    /\ onceLock' = NoThread
    /\ Return(t, Cur(t).err, TRUE)
    /\ UNCHANGED <<layers, rawErr, built, ctxDone, closeCalls, idleClosed, notConn>>

\* ---- HTTPConn and the DNS wrappers ----

\* mutant: a wrapper that remembers it was closed and does not call the
\* owned connection's Close a second time
delegate_Close_Guarded(t, kind) ==
    /\ Running(t, kind, "enter")
    /\ Invoked(Cur(t).layer)
    /\ IF closeCalls[Cur(t).layer] = 0
       THEN /\ CallInner(t, Cur(t))
            /\ UNCHANGED <<closeRets, returned, afterFunc>>
       ELSE Return(t, ErrClosed, FALSE)

\* "return c.conn.Close()": call the owned connection's Close ...
delegate_Close(t, kind) ==
    /\ Running(t, kind, "enter")
    /\ Invoked(Cur(t).layer)
    /\ CallInner(t, Cur(t))
    /\ UNCHANGED <<closeRets, returned, afterFunc>>

\* ... and return what it returned
delegate_Close_return(t, kind) ==
    /\ Running(t, kind, "after")
    /\ Return(t, Cur(t).err, TRUE)
    /\ UNCHANGED closeCalls

\* HTTPConn.Close: hc.closeIdleFunc(), then return hc.conn.Close()
HTTPConn_Close(t) ==
    /\ \/ delegate_Close(t, "httpconn") /\ idleClosed' = idleClosed + 1
       \/ delegate_Close_return(t, "httpconn") /\ UNCHANGED idleClosed
    /\ UNCHANGED <<layers, rawErr, built, ctxDone, onceDone, onceLock, connLog, notConn>>

\* DNSOverUDPConn.Close: return c.conn.Close()
DNSOverUDPConn_Close(t) ==
    /\ delegate_Close(t, "dnsudp") \/ delegate_Close_return(t, "dnsudp")
    /\ UNCHANGED <<layers, rawErr, built, ctxDone, onceDone, onceLock, connLog,
                   idleClosed, notConn>>

\* DNSOverTCPConn.Close: return c.conn.Close()
DNSOverTCPConn_Close(t) ==
    /\ delegate_Close(t, "dnstcp") \/ delegate_Close_return(t, "dnstcp")
    /\ UNCHANGED <<layers, rawErr, built, ctxDone, onceDone, onceLock, connLog,
                   idleClosed, notConn>>

\* DNSOverTLSConn.Close: return c.conn.Close()
DNSOverTLSConn_Close(t) ==
    /\ delegate_Close(t, "dnstls") \/ delegate_Close_return(t, "dnstls")
    /\ UNCHANGED <<layers, rawErr, built, ctxDone, onceDone, onceLock, connLog,
                   idleClosed, notConn>>

\* DNSOverHTTPSConn.Close: return c.httpConn.Close()
DNSOverHTTPSConn_Close(t) ==
    /\ delegate_Close(t, "doh") \/ delegate_Close_return(t, "doh")
    /\ UNCHANGED <<layers, rawErr, built, ctxDone, onceDone, onceLock, connLog,
                   idleClosed, notConn>>

\* ---- the raw connection ----

\* Close of a net.Conn: the first call closes and returns the result of
\* closing, every later call returns net.ErrClosed
netConn_Close(t) ==
    /\ Running(t, "netconn", "enter")
    /\ Invoked(1)
    /\ Return(t, IF closeCalls[1] > 0 THEN ErrClosed ELSE rawErr, TRUE)
    /\ UNCHANGED <<layers, rawErr, built, ctxDone, onceDone, onceLock, connLog,
                   idleClosed, notConn>>

\* Close of a netstub.FuncConn: CloseFunc returns the same value every time
stubConn_Close(t) ==
    /\ Running(t, "stub", "enter")
    /\ Invoked(1)
    /\ Return(t, rawErr, TRUE)
    /\ UNCHANGED <<layers, rawErr, built, ctxDone, onceDone, onceLock, connLog,
                   idleClosed, notConn>>

NextConn ==
    \/ context_Cancel
    \/ context_AfterFunc_fire
    \/ CancelWatchFunc_Call
    \/ afterFunc_run
    \/ \E t \in Users : caller_Close(t)
    \/ \E t \in Threads : cancelWatchedConn_Close(t)
    \/ \E t \in Threads : cancelWatchedConn_Close_return(t)
    \/ \E t \in Threads : observedConn_Close(t)
    \/ \E t \in Threads : observedConn_Close_once(t)
    \/ \E t \in Threads : observedConn_Close_done(t)
    \/ \E t \in Threads : HTTPConn_Close(t)
    \/ \E t \in Threads : DNSOverUDPConn_Close(t)
    \/ \E t \in Threads : DNSOverTCPConn_Close(t)
    \/ \E t \in Threads : DNSOverTLSConn_Close(t)
    \/ \E t \in Threads : DNSOverHTTPSConn_Close(t)
    \/ \E t \in Threads : netConn_Close(t)
    \/ \E t \in Threads : stubConn_Close(t)

SpecConn == InitConn /\ [][NextConn]_vars

\* the steps of the callback goroutine once it runs
callback_step ==
    \/ cancelWatchedConn_Close(Callback) \/ cancelWatchedConn_Close_return(Callback)
    \/ observedConn_Close(Callback) \/ observedConn_Close_once(Callback)
    \/ observedConn_Close_done(Callback)
    \/ netConn_Close(Callback) \/ stubConn_Close(Callback)

\* SpecConn with a fairly scheduled cancellation callback: a done context
\* starts the registered function, and its goroutine keeps running
FairSpecConn ==
    /\ SpecConn
    /\ WF_vars(context_AfterFunc_fire)
    /\ WF_vars(afterFunc_run)
    /\ WF_vars(callback_step)

\* ------------------------------------------------------------------------
\* connect.go: ConnectFunc
\* ------------------------------------------------------------------------

\* errors of a failed dial
ErrRefused == 1002
ErrTimedOut == 1003

\* a nil net.Conn, and the connection a successful dial returns
NilConn == "nil"
DialedConn == "conn"

\* the zero time.Time: a context without deadline, a timestamp never set
ZeroTime == 0

\* the first value of the clock behind TimeNow
StartTime == 1

Networks == {"tcp", "udp"}

AddrPorts == {[ip |-> "8.8.8.8", v6 |-> FALSE, port |-> 53],
              [ip |-> "2001:4860:4860::8888", v6 |-> TRUE, port |-> 443]}

\* a context deadline, when there is one
SomeDeadline == 30

\* netip.AddrPort.String: "ip:port", with the address in brackets for IPv6
AddrPortString(ap) ==
    IF ap.v6 THEN "[" \o ap.ip \o "]:" \o ToString(ap.port)
    ELSE ap.ip \o ":" \o ToString(ap.port)

\* Dialer.DialContext, as *net.Dialer and the tests' dialers behave: a
\* connection and a nil error, or a nil connection and the error
DialOutcomes == {"ok", "refused", "timeout"}

DialContext(outcome) ==
    CASE outcome = "ok"      -> [conn |-> DialedConn, err |-> Nil]
      [] outcome = "refused" -> [conn |-> NilConn,    err |-> ErrRefused]
      [] outcome = "timeout" -> [conn |-> NilConn,    err |-> ErrTimedOut]

\* ErrClassifier.Classify: the label is empty for nil; errclass.New names
\* the error, a custom classifier may use any labels
Classifiers == {"errclass", "custom"}

Classify(cls, err) ==
    IF err = Nil THEN ""
    ELSE IF cls = "custom" THEN "failure"
    ELSE CASE err = ErrRefused  -> "ECONNREFUSED"
           [] err = ErrTimedOut -> "ETIMEDOUT"
           [] err = ErrClosed   -> "ECONNABORTED"
           [] OTHER             -> "EGENERIC"

\* DefaultErrClassifier = ErrClassifierFunc(errclass.New)
DefaultErrClassifier == "errclass"

\* NewConfig: the defaults of a Config
NewConfig ==
    [Dialer |-> "net.Dialer", ErrClassifier |-> DefaultErrClassifier, TimeNow |-> "time.Now"]

\* safeconn.LocalAddr: the local address, or "" for a nil connection
safeconn_LocalAddr(conn) == IF conn = NilConn THEN "" ELSE "192.0.2.1:54321"

NotReturned == [conn |-> "none", err |-> Nil]

InitDial ==
    /\ connectIn \in [network : Networks, addr : AddrPorts,
                      deadline : {ZeroTime, SomeDeadline}, classifier : Classifiers]
    /\ dialOutcome \in DialOutcomes
    /\ connectPc = "start"
    /\ connectT0 = ZeroTime
    /\ connectClock = StartTime
    /\ dialCalls = <<>>
    /\ dialRet = [conn |-> NilConn, err |-> Nil]
    /\ connectLog = <<>>
    /\ connectRet = NotReturned
    /\ IdleButDial

\* ConnectFunc.Call: t0 := op.TimeNow(); deadline, _ := ctx.Deadline();
\* op.logConnectStart(...)
ConnectFunc_Call_start ==
    /\ connectPc = "start"
    /\ connectT0' = connectClock
    /\ connectClock' = connectClock + 1
    /\ connectLog' = Append(connectLog,
          [msg |-> "connectStart", deadline |-> connectIn.deadline,
           err |-> Nil, errClass |-> "", localAddr |-> "",
           protocol |-> connectIn.network,
           remoteAddr |-> AddrPortString(connectIn.addr),
           t0 |-> ZeroTime, t |-> connectClock])
    /\ connectPc' = "dial"
    /\ UNCHANGED <<connectIn, dialOutcome, dialCalls, dialRet, connectRet, notDial>>

\* mutant: Call dials a second time when the first dial fails
ConnectFunc_Call_dial_Retries ==
    /\ connectPc = "dial"
    /\ dialCalls' = dialCalls \o
          [i \in 1..(IF DialContext(dialOutcome).err # Nil THEN 2 ELSE 1) |->
              [deadline |-> connectIn.deadline, network |-> connectIn.network,
               address |-> AddrPortString(connectIn.addr)]]
    /\ dialRet' = DialContext(dialOutcome)
    /\ connectPc' = "dialed"
    /\ UNCHANGED <<connectIn, dialOutcome, connectT0, connectClock, connectLog,
                   connectRet, notDial>>

\* ConnectFunc.Call: conn, err := op.Dialer.DialContext(ctx, op.Network, address.String())
ConnectFunc_Call_dial ==
    /\ connectPc = "dial"
    /\ dialCalls' = Append(dialCalls,
          [deadline |-> connectIn.deadline, network |-> connectIn.network,
           address |-> AddrPortString(connectIn.addr)])
    /\ dialRet' = DialContext(dialOutcome)
    /\ connectPc' = "dialed"
    /\ UNCHANGED <<connectIn, dialOutcome, connectT0, connectClock, connectLog,
                   connectRet, notDial>>

\* mutant: Call gives up the connection and reports a timeout whenever the
\* classifier labels the dial's error "failure"
ConnectFunc_Call_return_ByClass(r) ==
    IF Classify(connectIn.classifier, r.err) = "failure"
    THEN [conn |-> NilConn, err |-> ErrTimedOut]
    ELSE [conn |-> r.conn, err |-> r.err]

\* mutant: Call hands back a connection value whatever the dial returned
ConnectFunc_Call_return_AlwaysConn(r) == [conn |-> DialedConn, err |-> r.err]

\* ConnectFunc.Call: return conn, err
ConnectFunc_Call_return(r) == [conn |-> r.conn, err |-> r.err]

\* ConnectFunc.Call: op.logConnectDone(...); return conn, err
ConnectFunc_Call_done ==
    /\ connectPc = "dialed"
    /\ connectLog' = Append(connectLog,
          [msg |-> "connectDone", deadline |-> connectIn.deadline,
           err |-> dialRet.err,
           errClass |-> Classify(connectIn.classifier, dialRet.err),
           localAddr |-> safeconn_LocalAddr(dialRet.conn),
           protocol |-> connectIn.network,
           remoteAddr |-> AddrPortString(connectIn.addr),
           t0 |-> connectT0, t |-> connectClock])
    /\ connectClock' = connectClock + 1
    /\ connectRet' = ConnectFunc_Call_return(dialRet)
    /\ connectPc' = "returned"
    /\ UNCHANGED <<connectIn, dialOutcome, connectT0, dialCalls, dialRet, notDial>>

NextDial ==
    \/ ConnectFunc_Call_start
    \/ ConnectFunc_Call_dial
    \/ ConnectFunc_Call_done

SpecDial == InitDial /\ [][NextDial]_vars

\* ------------------------------------------------------------------------
\* tls.go: TLSHandshakeFunc
\* ------------------------------------------------------------------------

\* Reads of the raw connection after Call returned
MaxRawReads == 1

\* errors of a failed handshake: one that carries no certificate, and the
\* three certificate-validation errors of crypto/x509
ErrHandshake == 1010
ErrHostname == 1011
ErrUnknownAuthority == 1012
ErrCertInvalid == 1013

\* the same three x509 error types with a nil certificate pointer: the error
\* is whatever the engine's HandshakeContext returns, and errors.As matches
\* on the type alone
ErrHostnameNoCert == 1014
ErrUnknownAuthorityNoCert == 1015
ErrCertInvalidNoCert == 1016

\* errors.Join of several certificate errors, each with its certificate:
\* invalid, unknown authority and hostname; invalid and unknown authority
ErrJoinedCerts == 1017
ErrJoinedAuthorityInvalid == 1018

CertErrors == {ErrHostname, ErrUnknownAuthority, ErrCertInvalid}
CertErrorsNoCert == {ErrHostnameNoCert, ErrUnknownAuthorityNoCert, ErrCertInvalidNoCert}

JoinedCertErrors == {ErrJoinedCerts, ErrJoinedAuthorityInvalid}

HandshakeErrors == {ErrHandshake} \cup CertErrors \cup CertErrorsNoCert \cup JoinedCertErrors

\* the TLS connection Engine.Client builds over the raw connection
TLSConnValue == "tlsconn"

\* the *tls.Config values given to NewTLSHandshakeFunc
TLSConfigs ==
    [ServerName : {"example.com"}, NextProtos : {<<"h2", "http/1.1">>},
     InsecureSkipVerify : BOOLEAN, Time : {"unset"}]

\* a nil *tls.Config: no server name, no protocols, no clock
NilTLSConfig ==
    [ServerName |-> "", NextProtos |-> <<>>, InsecureSkipVerify |-> FALSE, Time |-> "unset"]

\* the certificate lists a connection state exposes
PeerCertLists == {<<>>, <<"leaf">>, <<"leaf", "intermediate">>}

\* a nil *x509.Certificate
NilCert == "nil"

\* the certificate attached to a certificate-validation error
ErrorCert(err) ==
    CASE err = ErrHostname         -> "mismatching"
      [] err = ErrUnknownAuthority -> "selfsigned"
      [] err = ErrCertInvalid      -> "expired"
      [] err \in CertErrorsNoCert  -> NilCert

\* the certificate errors in an error's tree, in the depth-first order in
\* which errors.As visits them
ErrorTree(err) ==
    CASE err \in CertErrors \cup CertErrorsNoCert -> <<err>>
      [] err = ErrJoinedCerts -> <<ErrCertInvalid, ErrUnknownAuthority, ErrHostname>>
      [] err = ErrJoinedAuthorityInvalid -> <<ErrCertInvalid, ErrUnknownAuthority>>
      [] OTHER -> <<>>

\* errors.As(err, &target): the first error of the tree that has the
\* target's type, or Nil when there is none
errors_As(err, targetType) ==
    LET tree == ErrorTree(err)
        hits == {i \in DOMAIN tree : tree[i] \in targetType}
    IN  IF hits = {} THEN Nil
        ELSE tree[CHOOSE i \in hits : \A j \in hits : i <= j]

\* a variant of peerCerts that takes the first certificate error of the
\* tree, whatever its type
peerCerts_match_TreeOrder(err) ==
    IF ErrorTree(err) = <<>> THEN Nil ELSE ErrorTree(err)[1]

\* TLSHandshakeFunc.peerCerts, step 1: the error whose certificate is
\* logged: x509.HostnameError first, then x509.UnknownAuthorityError,
\* then x509.CertificateInvalidError; Nil when none matches
peerCerts_match(err) ==
    IF errors_As(err, {ErrHostname, ErrHostnameNoCert}) # Nil
    THEN errors_As(err, {ErrHostname, ErrHostnameNoCert})
    ELSE IF errors_As(err, {ErrUnknownAuthority, ErrUnknownAuthorityNoCert}) # Nil
    THEN errors_As(err, {ErrUnknownAuthority, ErrUnknownAuthorityNoCert})
    ELSE errors_As(err, {ErrCertInvalid, ErrCertInvalidNoCert})

\* TLSHandshakeFunc.peerCerts dereferences the certificate of a certificate
\* error (.Raw) without a nil check: a nil certificate is a run-time panic
peerCerts_panics(err) ==
    peerCerts_match(err) # Nil /\ ErrorCert(peerCerts_match(err)) = NilCert

\* TLSHandshakeFunc.peerCerts: the certificate of the matched certificate
\* error; else the certificates of the connection state, in order
peerCerts(state, err) ==
    IF peerCerts_match(err) # Nil
    THEN <<ErrorCert(peerCerts_match(err))>>
    ELSE state

\* TLSHandshakeFunc.tlsConfig: config := op.Config.Clone(); config.Time = op.TimeNow
tlsConfig(config) == [config EXCEPT !.Time = "TimeNow"]

\* the most Call invocations on one TLSHandshakeFunc
MaxTLSCalls == 2

\* what one Call meets: the handshake's result, the connection state, the
\* context's deadline; and the classifier of the configuration
TLSCallEnvs ==
    [err : {Nil} \cup HandshakeErrors, peerCerts : PeerCertLists,
     alpn : {"", "h2"}, deadline : {ZeroTime, SomeDeadline},
     classifier : Classifiers]

InitTLS ==
    /\ tlsIn \in TLSCallEnvs
    /\ \/ /\ tlsPc = "new"
          /\ tlsOpConfig \in TLSConfigs \cup {NilTLSConfig}
       \/ /\ tlsPc = "start"
          /\ tlsOpConfig = NilTLSConfig
    /\ tlsEngineConfig = "nil"
    /\ tlsT0 = ZeroTime
    /\ tlsClock = StartTime
    /\ tlsErr = Nil
    /\ tlsLog = <<>>
    /\ tlsRet = NotReturned
    /\ tlsConnCloses = 0
    /\ rawCloses = 0
    /\ rawReads = <<>>
    /\ IdleButTLS

TLSEvent(msg, err, errClass, alpn, certs, t0, t) ==
    [msg |-> msg, deadline |-> tlsIn.deadline, err |-> err, errClass |-> errClass,
     tlsNegotiatedProtocol |-> alpn, tlsPeerCerts |-> certs,
     tlsServerName |-> tlsOpConfig.ServerName,
     tlsSkipVerify |-> tlsOpConfig.InsecureSkipVerify, t0 |-> t0, t |-> t]

\* NewTLSHandshakeFunc: runtimex.Assert(tlsConfig != nil), then the
\* TLSHandshakeFunc with Config: tlsConfig
NewTLSHandshakeFunc ==
    /\ tlsPc = "new"
    /\ tlsPc' = IF tlsOpConfig = NilTLSConfig THEN "newPanicked" ELSE "start"
    /\ UNCHANGED <<tlsIn, tlsOpConfig, tlsEngineConfig, tlsT0, tlsClock, tlsErr, tlsLog,
                   tlsRet, tlsConnCloses, rawCloses, rawReads, notTLS>>

\* a variant of Call that checks op.Config only after it has logged
\* tlsHandshakeStart
TLSHandshakeFunc_Call_start_LateAssert ==
    /\ tlsPc = "start"
    /\ tlsT0' = tlsClock
    /\ tlsClock' = tlsClock + 1
    /\ tlsLog' = Append(tlsLog,
          TLSEvent("tlsHandshakeStart", Nil, "", "", <<>>, ZeroTime, tlsClock))
    /\ IF tlsOpConfig = NilTLSConfig
       THEN /\ tlsPc' = "configPanicked"
            /\ UNCHANGED tlsEngineConfig
       ELSE /\ tlsEngineConfig' = tlsConfig(tlsOpConfig)
            /\ tlsPc' = "handshake"
    /\ UNCHANGED <<tlsIn, tlsOpConfig, tlsErr, tlsRet, tlsConnCloses, rawCloses,
                   rawReads, notTLS>>

\* a variant of Call that sets the clock on op.Config itself and hands
\* that to the engine, without cloning
TLSHandshakeFunc_Call_start_NoClone ==
    /\ tlsPc = "start"
    /\ tlsOpConfig' = tlsConfig(tlsOpConfig)
    /\ tlsEngineConfig' = tlsConfig(tlsOpConfig)
    /\ tlsT0' = tlsClock
    /\ tlsClock' = tlsClock + 1
    /\ tlsLog' = Append(tlsLog,
          TLSEvent("tlsHandshakeStart", Nil, "", "", <<>>, ZeroTime, tlsClock))
    /\ tlsPc' = "handshake"
    /\ UNCHANGED <<tlsIn, tlsErr, tlsRet, tlsConnCloses, rawCloses,
                   rawReads, notTLS>>

\* TLSHandshakeFunc.Call: config := op.tlsConfig(), whose
\* runtimex.Assert(op.Config != nil) panics on a nil Config; then
\* tconn := op.Engine.Client(conn, config); t0 := op.TimeNow();
\* op.logHandshakeStart(...)
TLSHandshakeFunc_Call_start ==
    /\ tlsPc = "start"
    /\ IF tlsOpConfig = NilTLSConfig
       THEN /\ tlsPc' = "configPanicked"
            /\ UNCHANGED <<tlsEngineConfig, tlsT0, tlsClock, tlsLog>>
       ELSE /\ tlsEngineConfig' = tlsConfig(tlsOpConfig)
            /\ tlsT0' = tlsClock
            /\ tlsClock' = tlsClock + 1
            /\ tlsLog' = Append(tlsLog,
                  TLSEvent("tlsHandshakeStart", Nil, "", "", <<>>, ZeroTime, tlsClock))
            /\ tlsPc' = "handshake"
    /\ UNCHANGED <<tlsIn, tlsOpConfig, tlsErr, tlsRet, tlsConnCloses, rawCloses,
                   rawReads, notTLS>>

\* TLSHandshakeFunc.Call: err := tconn.HandshakeContext(ctx);
\* state := tconn.ConnectionState(); op.logHandshakeDone(...)
\* The event's attributes are evaluated before Logger.Info is called, so a
\* panic in peerCerts leaves Call without the event and without a return.
TLSHandshakeFunc_Call_handshake ==
    /\ tlsPc = "handshake"
    /\ tlsErr' = tlsIn.err
    /\ IF peerCerts_panics(tlsIn.err)
       THEN /\ tlsPc' = "panicked"
            /\ UNCHANGED tlsLog
       ELSE /\ tlsPc' = "finish"
            /\ tlsLog' = Append(tlsLog,
                  TLSEvent("tlsHandshakeDone", tlsIn.err,
                           Classify(tlsIn.classifier, tlsIn.err), tlsIn.alpn,
                           peerCerts(tlsIn.peerCerts, tlsIn.err), tlsT0, tlsClock))
    /\ tlsClock' = tlsClock + 1
    /\ UNCHANGED <<tlsIn, tlsOpConfig, tlsEngineConfig, tlsT0, tlsRet, tlsConnCloses,
                   rawCloses, rawReads, notTLS>>

\* mutant: finish returns the error without closing the connection
TLSHandshakeFunc_finish_NoClose ==
    /\ tlsPc = "finish"
    /\ tlsRet' = IF tlsErr # Nil THEN [conn |-> NilConn, err |-> tlsErr]
                 ELSE [conn |-> TLSConnValue, err |-> Nil]
    /\ tlsPc' = "returned"
    /\ UNCHANGED <<tlsIn, tlsOpConfig, tlsEngineConfig, tlsT0, tlsClock, tlsErr, tlsLog,
                   tlsConnCloses, rawCloses, rawReads, notTLS>>

\* mutant: finish replaces a certificate-validation error by a generic one
TLSHandshakeFunc_finish_Rewrites ==
    /\ tlsPc = "finish"
    /\ IF tlsErr # Nil
       THEN /\ tlsConnCloses' = tlsConnCloses + 1
            /\ rawCloses' = rawCloses + 1
            /\ tlsRet' = [conn |-> NilConn,
                          err |-> IF tlsErr \in CertErrors THEN ErrHandshake ELSE tlsErr]
       ELSE /\ tlsRet' = [conn |-> TLSConnValue, err |-> Nil]
            /\ UNCHANGED <<tlsConnCloses, rawCloses>>
    /\ tlsPc' = "returned"
    /\ UNCHANGED <<tlsIn, tlsOpConfig, tlsEngineConfig, tlsT0, tlsClock, tlsErr, tlsLog,
                   rawReads, notTLS>>

\* TLSHandshakeFunc.finish: on error conn.Close() and return nil, err;
\* otherwise return conn, nil. conn is the TLS connection; closing it closes
\* the raw connection it was built on (tls.Conn.Close).
TLSHandshakeFunc_finish ==
    /\ tlsPc = "finish"
    /\ IF tlsErr # Nil
       THEN /\ tlsConnCloses' = tlsConnCloses + 1
            /\ rawCloses' = rawCloses + 1
            /\ tlsRet' = [conn |-> NilConn, err |-> tlsErr]
       ELSE /\ tlsRet' = [conn |-> TLSConnValue, err |-> Nil]
            /\ UNCHANGED <<tlsConnCloses, rawCloses>>
    /\ tlsPc' = "returned"
    /\ UNCHANGED <<tlsIn, tlsOpConfig, tlsEngineConfig, tlsT0, tlsClock, tlsErr, tlsLog,
                   rawReads, notTLS>>

\* a Read on the raw connection after Call returned: a closed net.Conn
\* fails with net.ErrClosed
rawConn_Read ==
    /\ tlsPc = "returned"
    /\ Len(rawReads) < MaxRawReads
    /\ rawReads' = Append(rawReads, IF rawCloses > 0 THEN ErrClosed ELSE Nil)
    /\ UNCHANGED <<tlsIn, tlsOpConfig, tlsEngineConfig, tlsPc, tlsT0, tlsClock, tlsErr,
                   tlsLog, tlsRet, tlsConnCloses, rawCloses, notTLS>>

\* the caller invokes Call once more on the same TLSHandshakeFunc, with
\* another connection: the variables of the call start afresh, op.Config
\* and the clock stay
TLSHandshakeFunc_Call_again(env) ==
    /\ tlsPc = "returned"
    /\ tlsClock < StartTime + 2 * MaxTLSCalls
    /\ tlsIn' = [env EXCEPT !.classifier = tlsIn.classifier]
    /\ tlsPc' = "start"
    /\ tlsErr' = Nil
    /\ tlsLog' = <<>>
    /\ tlsRet' = NotReturned
    /\ tlsConnCloses' = 0
    /\ rawCloses' = 0
    /\ rawReads' = <<>>
    /\ UNCHANGED <<tlsOpConfig, tlsEngineConfig, tlsT0, tlsClock, notTLS>>

NextTLS ==
    \/ NewTLSHandshakeFunc
    \/ TLSHandshakeFunc_Call_start
    \/ \E env \in TLSCallEnvs : TLSHandshakeFunc_Call_again(env)
    \/ TLSHandshakeFunc_Call_handshake
    \/ TLSHandshakeFunc_finish
    \/ rawConn_Read

SpecTLS == InitTLS /\ [][NextTLS]_vars

\* ------------------------------------------------------------------------
\* httpbody.go: httpBodyWrapper
\*
\* Two threads call Read and Close on one wrapped body. Every statement of
\* the two methods that touches shared state is a step of its own.
\* ------------------------------------------------------------------------

\* calls each thread makes on the wrapped body
MaxBodyCalls == 3

\* reading a response body after it was closed fails
ErrBodyClosed == 1020

InitBody ==
    /\ bodyCloseErr \in {Nil, ErrIO}
    /\ bodyPc = [t \in BodyThreads |-> "idle"]
    /\ bodyCalls = [t \in BodyThreads |-> <<>>]
    /\ bodyRets = [t \in BodyThreads |-> <<>>]
    /\ didRead = FALSE
    /\ bodyT0 = ZeroTime
    /\ bodyClock = StartTime
    /\ readOnce = [done |-> FALSE, lock |-> NoThread]
    /\ closeOnce = [done |-> FALSE, lock |-> NoThread]
    /\ bodyErr = Nil
    /\ bodyClosed = FALSE
    /\ bodyTrace = <<>>
    /\ IdleButBody

BodyEvent(ev, t0, t) == [ev |-> ev, t0 |-> t0, t |-> t]

bodyReturn(t, e) ==
    /\ bodyRets' = [bodyRets EXCEPT ![t] = Append(@, e)]
    /\ bodyPc' = [bodyPc EXCEPT ![t] = "idle"]

\* a thread calls Read or Close on the wrapped body
body_call(t, op) ==
    /\ bodyPc[t] = "idle"
    /\ Len(bodyCalls[t]) < MaxBodyCalls
    /\ bodyCalls' = [bodyCalls EXCEPT ![t] = Append(@, op)]
    /\ bodyPc' = [bodyPc EXCEPT ![t] = IF op = "Read" THEN "r_once" ELSE "c_once"]
    /\ UNCHANGED <<bodyCloseErr, bodyRets, didRead, bodyT0, bodyClock, readOnce,
                   closeOnce, bodyErr, bodyClosed, bodyTrace, notBody>>

\* httpBodyWrapper.Read: b.readOnce.Do(...): the first call goes in, a call
\* that arrives while another is inside waits, a later call skips
httpBodyWrapper_Read_once(t) ==
    /\ bodyPc[t] = "r_once"
    /\ \/ /\ readOnce.done
          /\ bodyPc' = [bodyPc EXCEPT ![t] = "r_body"]
          /\ UNCHANGED readOnce
       \/ /\ ~readOnce.done /\ readOnce.lock = NoThread
          /\ readOnce' = [readOnce EXCEPT !.lock = t]
          /\ bodyPc' = [bodyPc EXCEPT ![t] = "r_t0"]
    /\ UNCHANGED <<bodyCloseErr, bodyCalls, bodyRets, didRead, bodyT0, bodyClock,
                   closeOnce, bodyErr, bodyClosed, bodyTrace, notBody>>

\* mutant: Read publishes the did-read flag before it writes the timestamp
httpBodyWrapper_Read_t0_AfterStore(t) ==
    /\ bodyPc[t] = "r_t0"
    /\ IF ~didRead
       THEN /\ didRead' = TRUE
            /\ UNCHANGED <<bodyT0, bodyClock, bodyPc>>
       ELSE /\ bodyT0' = bodyClock
            /\ bodyClock' = bodyClock + 1
            /\ bodyPc' = [bodyPc EXCEPT ![t] = "r_store"]
            /\ UNCHANGED didRead
    /\ UNCHANGED <<bodyCloseErr, bodyCalls, bodyRets, readOnce,
                   closeOnce, bodyErr, bodyClosed, bodyTrace, notBody>>

\* httpBodyWrapper.Read: b.t0 = b.timeNow()
httpBodyWrapper_Read_t0(t) ==
    /\ bodyPc[t] = "r_t0"
    /\ bodyT0' = bodyClock
    /\ bodyClock' = bodyClock + 1
    /\ bodyPc' = [bodyPc EXCEPT ![t] = "r_store"]
    /\ UNCHANGED <<bodyCloseErr, bodyCalls, bodyRets, didRead, readOnce,
                   closeOnce, bodyErr, bodyClosed, bodyTrace, notBody>>

\* mutant: the run-once gate of Read opens as soon as the flag is published,
\* before httpBodyStreamStart is logged
httpBodyWrapper_Read_store_OpensGate(t) ==
    /\ bodyPc[t] = "r_store"
    /\ didRead' = TRUE
    /\ readOnce' = [done |-> TRUE, lock |-> t]
    /\ bodyPc' = [bodyPc EXCEPT ![t] = "r_log"]
    /\ UNCHANGED <<bodyCloseErr, bodyCalls, bodyRets, bodyT0, bodyClock,
                   closeOnce, bodyErr, bodyClosed, bodyTrace, notBody>>

\* httpBodyWrapper.Read: b.didRead.Store(true)
httpBodyWrapper_Read_store(t) ==
    /\ bodyPc[t] = "r_store"
    /\ didRead' = TRUE
    /\ bodyPc' = [bodyPc EXCEPT ![t] = "r_log"]
    /\ UNCHANGED <<bodyCloseErr, bodyCalls, bodyRets, bodyT0, bodyClock, readOnce,
                   closeOnce, bodyErr, bodyClosed, bodyTrace, notBody>>

\* httpBodyWrapper.Read: b.logger.Info("httpBodyStreamStart", ...), the end
\* of the function given to readOnce.Do
httpBodyWrapper_Read_log(t) ==
    /\ bodyPc[t] = "r_log"
    /\ bodyTrace' = Append(bodyTrace, BodyEvent("httpBodyStreamStart", ZeroTime, bodyT0))
    /\ readOnce' = [done |-> TRUE, lock |-> NoThread]
    /\ bodyPc' = [bodyPc EXCEPT ![t] = "r_body"]
    /\ UNCHANGED <<bodyCloseErr, bodyCalls, bodyRets, didRead, bodyT0, bodyClock,
                   closeOnce, bodyErr, bodyClosed, notBody>>

\* httpBodyWrapper.Read: return b.body.Read(buffer)
httpBodyWrapper_Read_body(t) ==
    /\ bodyPc[t] = "r_body"
    /\ bodyTrace' = Append(bodyTrace, BodyEvent("body.Read", ZeroTime, ZeroTime))
    /\ bodyReturn(t, IF bodyClosed THEN ErrBodyClosed ELSE Nil)
    /\ UNCHANGED <<bodyCloseErr, bodyCalls, didRead, bodyT0, bodyClock, readOnce,
                   closeOnce, bodyErr, bodyClosed, notBody>>

\* mutant: Close without the run-once gate
httpBodyWrapper_Close_once_NoGate(t) ==
    /\ bodyPc[t] = "c_once"
    /\ bodyPc' = [bodyPc EXCEPT ![t] = "c_close"]
    /\ UNCHANGED <<bodyCloseErr, bodyCalls, bodyRets, didRead, bodyT0, bodyClock,
                   readOnce, closeOnce, bodyErr, bodyClosed, bodyTrace, notBody>>

\* httpBodyWrapper.Close: b.closeOnce.Do(...): the first call goes in; a
\* later call skips the function and returns err, which is still nil
httpBodyWrapper_Close_once(t) ==
    /\ bodyPc[t] = "c_once"
    /\ \/ /\ closeOnce.done
          /\ bodyReturn(t, Nil)
          /\ UNCHANGED closeOnce
       \/ /\ ~closeOnce.done /\ closeOnce.lock = NoThread
          /\ closeOnce' = [closeOnce EXCEPT !.lock = t]
          /\ bodyPc' = [bodyPc EXCEPT ![t] = "c_close"]
          /\ UNCHANGED bodyRets
    /\ UNCHANGED <<bodyCloseErr, bodyCalls, didRead, bodyT0, bodyClock, readOnce,
                   bodyErr, bodyClosed, bodyTrace, notBody>>

\* httpBodyWrapper.Close: err = b.body.Close()
httpBodyWrapper_Close_body(t) ==
    /\ bodyPc[t] = "c_close"
    /\ bodyTrace' = Append(bodyTrace, BodyEvent("body.Close", ZeroTime, ZeroTime))
    /\ bodyClosed' = TRUE
    /\ bodyErr' = bodyCloseErr
    /\ bodyPc' = [bodyPc EXCEPT ![t] = "c_load"]
    /\ UNCHANGED <<bodyCloseErr, bodyCalls, bodyRets, didRead, bodyT0, bodyClock,
                   readOnce, closeOnce, notBody>>

\* mutant: Close logs httpBodyStreamDone whether or not a Read happened
httpBodyWrapper_Close_load_Always(t) ==
    /\ bodyPc[t] = "c_load"
    /\ bodyPc' = [bodyPc EXCEPT ![t] = "c_log"]
    /\ UNCHANGED <<bodyCloseErr, bodyCalls, bodyRets, didRead, bodyT0, bodyClock,
                   readOnce, closeOnce, bodyErr, bodyClosed, bodyTrace, notBody>>

\* httpBodyWrapper.Close: if b.didRead.Load() { ... }; without a Read the
\* function given to closeOnce.Do ends here and Close returns err
httpBodyWrapper_Close_load(t) ==
    /\ bodyPc[t] = "c_load"
    /\ IF didRead
       THEN /\ bodyPc' = [bodyPc EXCEPT ![t] = "c_log"]
            /\ UNCHANGED <<bodyRets, closeOnce>>
       ELSE /\ closeOnce' = [done |-> TRUE, lock |-> NoThread]
            /\ bodyReturn(t, bodyErr)
    /\ UNCHANGED <<bodyCloseErr, bodyCalls, didRead, bodyT0, bodyClock,
                   readOnce, bodyErr, bodyClosed, bodyTrace, notBody>>

\* mutant: Close logs nothing after a Read either
httpBodyWrapper_Close_log_Silent(t) ==
    /\ bodyPc[t] = "c_log"
    /\ closeOnce' = [done |-> TRUE, lock |-> NoThread]
    /\ bodyReturn(t, bodyErr)
    /\ UNCHANGED <<bodyCloseErr, bodyCalls, didRead, bodyT0, bodyClock, readOnce,
                   bodyErr, bodyClosed, bodyTrace, notBody>>

\* httpBodyWrapper.Close: b.logger.Info("httpBodyStreamDone", ..., t0, t),
\* the end of the function given to closeOnce.Do, and Close returns err
httpBodyWrapper_Close_log(t) ==
    /\ bodyPc[t] = "c_log"
    /\ bodyTrace' = Append(bodyTrace, BodyEvent("httpBodyStreamDone", bodyT0, bodyClock))
    /\ bodyClock' = bodyClock + 1
    /\ closeOnce' = [done |-> TRUE, lock |-> NoThread]
    /\ bodyReturn(t, bodyErr)
    /\ UNCHANGED <<bodyCloseErr, bodyCalls, didRead, bodyT0, readOnce, bodyErr,
                   bodyClosed, notBody>>

NextBody ==
    \/ \E t \in BodyThreads : body_call(t, "Read")
    \/ \E t \in BodyThreads : body_call(t, "Close")
    \/ \E t \in BodyThreads : httpBodyWrapper_Read_once(t)
    \/ \E t \in BodyThreads : httpBodyWrapper_Read_t0(t)
    \/ \E t \in BodyThreads : httpBodyWrapper_Read_store(t)
    \/ \E t \in BodyThreads : httpBodyWrapper_Read_log(t)
    \/ \E t \in BodyThreads : httpBodyWrapper_Read_body(t)
    \/ \E t \in BodyThreads : httpBodyWrapper_Close_once(t)
    \/ \E t \in BodyThreads : httpBodyWrapper_Close_body(t)
    \/ \E t \in BodyThreads : httpBodyWrapper_Close_load(t)
    \/ \E t \in BodyThreads : httpBodyWrapper_Close_log(t)

SpecBody == InitBody /\ [][NextBody]_vars

\* ------------------------------------------------------------------------
\* endpoint.go: HTTPConnFunc and the transport it builds
\* ------------------------------------------------------------------------

\* invocations of the transport's dial hooks after Call returned
MaxHTTPDials == 3

\* the error of a single-use dialer that has already given its connection
ErrNoConnReuse == 1030

\* the protocols a TLS connection state may report as negotiated
ALPNs == {"", "h2", "http/1.1", "h2c"}

\* the inputs of Call: a plain connection, which has no ConnectionState
\* method, or a TLS connection reporting some negotiated protocol
HTTPInputs ==
    {[kind |-> "plain", alpn |-> ""]} \cup [kind : {"tls"}, alpn : ALPNs]

\* the connection value of an input
ConnOf(in) == IF in.kind = "tls" THEN TLSConnValue ELSE DialedConn

\* the arguments a transport passes to a dial hook
DialNetworks == {"tcp"}
DialAddrs == {"example.com:80", "example.com:443"}

\* HTTPConnFunc.Call: "if csp, ok := any(conn).(connectionStater); ok
\* { alpn = csp.ConnectionState().NegotiatedProtocol }", else alpn stays ""
negotiatedProtocol(in) == IF in.kind = "tls" THEN in.alpn ELSE ""

\* sud.NewSingleUseDialer(conn): the dialer holds the connection
sud_NewSingleUseDialer(conn) == conn

\* DialContext and DialTLSContext of a single-use dialer holding `held`:
\* the connection the first time, an error afterwards
sud_Dial(held) ==
    IF held # NilConn
    THEN [conn |-> held, err |-> Nil, held |-> NilConn]
    ELSE [conn |-> NilConn, err |-> ErrNoConnReuse, held |-> NilConn]

\* mutant: any negotiated protocol selects the HTTP/2 transport
HTTPConnFunc_Call_transport_AnyALPN(alpn, dialer) ==
    IF alpn # ""
    THEN [kind |-> "http2.Transport",
          hooks |-> [DialTLSContext |-> [dialer |-> dialer, method |-> "DialTLSContext"]],
          DisableCompression |-> FALSE]
    ELSE [kind |-> "http.Transport",
          hooks |-> [DialContext    |-> [dialer |-> dialer, method |-> "DialContext"],
                     DialTLSContext |-> [dialer |-> dialer, method |-> "DialContext"]],
          DisableKeepAlives |-> TRUE,
          DisableCompression |-> FALSE]

\* mutant: the HTTP/1.1 transport's TLS dial hook gets a dialer of its own
HTTPConnFunc_Call_transport_OwnDialer(alpn, dialer) ==
    IF alpn = "h2"
    THEN [kind |-> "http2.Transport",
          hooks |-> [DialTLSContext |-> [dialer |-> dialer, method |-> "DialTLSContext"]],
          DisableCompression |-> FALSE]
    ELSE [kind |-> "http.Transport",
          hooks |-> [DialContext    |-> [dialer |-> dialer, method |-> "DialContext"],
                     DialTLSContext |-> [dialer |-> dialer + 1, method |-> "DialContext"]],
          DisableKeepAlives |-> TRUE,
          DisableCompression |-> FALSE]

\* HTTPConnFunc.Call, "switch alpn": for "h2" an http2.Transport whose
\* DialTLSContext is dialer.DialTLSContext; by default an http.Transport
\* whose DialContext and DialTLSContext are both dialer.DialContext, with
\* DisableKeepAlives set
HTTPConnFunc_Call_transport(alpn, dialer) ==
    IF alpn = "h2"
    THEN [kind |-> "http2.Transport",
          hooks |-> [DialTLSContext |-> [dialer |-> dialer, method |-> "DialTLSContext"]],
          DisableCompression |-> FALSE]
    ELSE [kind |-> "http.Transport",
          hooks |-> [DialContext    |-> [dialer |-> dialer, method |-> "DialContext"],
                     DialTLSContext |-> [dialer |-> dialer, method |-> "DialContext"]],
          DisableKeepAlives |-> TRUE,
          DisableCompression |-> FALSE]

\* the single-use dialers a transport's hooks are bound to
DialersOf(txp) == {txp.hooks[h].dialer : h \in DOMAIN txp.hooks}

InitHTTP ==
    /\ httpIn \in HTTPInputs
    /\ httpPc = "call"
    /\ httpRet = [hc |-> "nil", err |-> Nil]
    /\ sudConn = <<>>
    /\ httpDials = <<>>
    /\ rtPc = "idle"
    /\ rtTrace = <<>>
    /\ rtRets = <<>>
    /\ IdleButHTTP

\* HTTPConnFunc.Call: read the negotiated protocol, create the single-use
\* dialer over conn, build the transport, return the HTTPConn and nil
HTTPConnFunc_Call ==
    /\ httpPc = "call"
    /\ LET alpn == negotiatedProtocol(httpIn)
           txp  == HTTPConnFunc_Call_transport(alpn, 1)
       IN /\ sudConn' = [d \in DialersOf(txp) |-> sud_NewSingleUseDialer(ConnOf(httpIn))]
          /\ httpRet' = [hc |-> [conn |-> ConnOf(httpIn), txp |-> txp,
                                 closeIdleFunc |-> txp.kind],
                         err |-> Nil]
    /\ httpPc' = "returned"
    /\ UNCHANGED <<httpIn, httpDials, rtPc, rtTrace, rtRets, notHTTP>>

\* the transport of the returned HTTPConn invokes one of its dial hooks
Transport_dial(hook, network, addr) ==
    /\ httpPc = "returned"
    /\ Len(httpDials) < MaxHTTPDials
    /\ hook \in DOMAIN httpRet.hc.txp.hooks
    /\ LET d == httpRet.hc.txp.hooks[hook].dialer
           r == sud_Dial(sudConn[d])
       IN /\ sudConn' = [sudConn EXCEPT ![d] = r.held]
          /\ httpDials' = Append(httpDials,
                [hook |-> hook, network |-> network, addr |-> addr,
                 conn |-> r.conn, err |-> r.err])
    /\ UNCHANGED <<httpIn, httpPc, httpRet, rtPc, rtTrace, rtRets, notHTTP>>

\* the most RoundTrip calls on one HTTPConn
MaxRoundTrips == 2

\* a nil *http.Response
NilHTTPResponse == [status |-> 0, body |-> [wrapper |-> "none", inner |-> "nil"]]

\* the body of a response as the transport returns it
TransportBody == [wrapper |-> "none", inner |-> "body"]

\* what hc.txp.RoundTrip returns: a response and a nil error, or a nil
\* response and an error; a transport that breaks the RoundTripper
\* contract returns a response together with an error
RoundTripOutcomes ==
    {[resp |-> [status |-> 200, body |-> TransportBody], err |-> Nil],
     [resp |-> [status |-> 404, body |-> TransportBody], err |-> Nil],
     [resp |-> NilHTTPResponse, err |-> ErrIO],
     [resp |-> NilHTTPResponse, err |-> ErrTimedOut],
     [resp |-> [status |-> 502, body |-> TransportBody], err |-> ErrIO]}

\* httpBodyWrap: the body wrapped for lazy logging
httpBodyWrap(body) == [wrapper |-> "httpBodyWrapper", inner |-> body.inner]

\* HTTPConn.RoundTrip: t0 := hc.TimeNow(); httpLogRoundTripStart(...);
\* hc.txp.RoundTrip(req) is called
HTTPConn_RoundTrip_start ==
    /\ httpPc = "returned"
    /\ rtPc = "idle"
    /\ Len(rtRets) < MaxRoundTrips
    /\ rtTrace' = rtTrace \o
          <<[msg |-> "httpRoundTripStart", call |-> Len(rtRets) + 1, err |-> Nil,
             status |-> 0],
            [msg |-> "txp.RoundTrip", call |-> Len(rtRets) + 1, err |-> Nil,
             status |-> 0]>>
    /\ rtPc' = "inTransport"
    /\ UNCHANGED <<httpIn, httpPc, httpRet, sudConn, httpDials, rtRets, notHTTP>>

\* a variant of RoundTrip that hands back the transport's response, body
\* wrapped, also when the transport reports an error
HTTPConn_RoundTrip_return_KeepsResponse(out) ==
    /\ rtPc = "inTransport"
    /\ rtTrace' = rtTrace \o
          <<[msg |-> "httpRoundTripDone", call |-> Len(rtRets) + 1, err |-> out.err,
             status |-> out.resp.status],
            [msg |-> "httpBodyWrap", call |-> Len(rtRets) + 1, err |-> Nil,
             status |-> 0]>>
    /\ rtRets' = Append(rtRets,
          [resp |-> [out.resp EXCEPT !.body = httpBodyWrap(@)], err |-> out.err])
    /\ rtPc' = "idle"
    /\ UNCHANGED <<httpIn, httpPc, httpRet, sudConn, httpDials, notHTTP>>

\* HTTPConn.RoundTrip: the transport returns; httpLogRoundTripDone(...);
\* on an error return nil, err; otherwise wrap resp.Body and return resp, nil
HTTPConn_RoundTrip_return(out) ==
    /\ rtPc = "inTransport"
    /\ IF out.err # Nil
       THEN /\ rtTrace' = Append(rtTrace,
                  [msg |-> "httpRoundTripDone", call |-> Len(rtRets) + 1,
                   err |-> out.err, status |-> out.resp.status])
            /\ rtRets' = Append(rtRets, [resp |-> NilHTTPResponse, err |-> out.err])
       ELSE /\ rtTrace' = rtTrace \o
                  <<[msg |-> "httpRoundTripDone", call |-> Len(rtRets) + 1,
                     err |-> Nil, status |-> out.resp.status],
                    [msg |-> "httpBodyWrap", call |-> Len(rtRets) + 1, err |-> Nil,
                     status |-> 0]>>
            /\ rtRets' = Append(rtRets,
                  [resp |-> [out.resp EXCEPT !.body = httpBodyWrap(@)], err |-> Nil])
    /\ rtPc' = "idle"
    /\ UNCHANGED <<httpIn, httpPc, httpRet, sudConn, httpDials, notHTTP>>

NextHTTP ==
    \/ HTTPConnFunc_Call
    \/ HTTPConn_RoundTrip_start
    \/ \E out \in RoundTripOutcomes : HTTPConn_RoundTrip_return(out)
    \/ \E hook \in {"DialContext", "DialTLSContext"}, network \in DialNetworks,
          addr \in DialAddrs : Transport_dial(hook, network, addr)

SpecHTTP == InitHTTP /\ [][NextHTTP]_vars

\* ------------------------------------------------------------------------
\* The DNS wrappers: Exchange
\*
\* One wrapper of some kind and two callers, each of which may call Exchange
\* again and again, also while the other caller's Exchange is in progress.
\* The trace and the readings of the clock are kept per caller, in the order
\* in which that caller's Exchange produced them.
\* The transports (minest, dnsoverstream, dnsoverhttps) are collaborators:
\* they call the query observer when they have serialized the query, the
\* response observer when they have read a response, and return a response
\* or an error.
\* ------------------------------------------------------------------------

\* Exchange calls made on the wrapper, all callers together
MaxExchanges == 3

DNSKinds == {"udp", "tcp", "dot", "doh"}

\* the ServerProtocol each wrapper's Exchange puts in its log context
ServerProtocol(kind) == kind

\* a nil []byte, a nil *dnscodec.Response
NilBytes == <<>>
NilResponse == <<>>

\* errors of an exchange: the URL cannot be parsed, the HTTP round trip
\* failed, the response cannot be decoded, the query cannot be sent
ErrBadURL == 1040
ErrRoundTrip == 1041
ErrDecode == 1042
ErrSend == 1043

\* the Exchange call in progress of caller t, the raw query and the raw
\* response of a call, and the response decoded from it
CallId(t) == <<t, dnsCall[t]>>
RawQuery(c) == <<"query">> \o c
RawResponse(c) == <<"response">> \o c
Decoded(c) == <<"decoded">> \o c

\* the Exchange calls started so far, all callers together
Exchanges == dnsCall["u1"] + dnsCall["u2"]

InitDNS ==
    /\ dnsIn \in [kind : DNSKinds, deadline : {ZeroTime, SomeDeadline}]
    /\ dnsPc = [t \in Users |-> "idle"]
    /\ dnsCall = [t \in Users |-> 0]
    /\ dnsRqr = [t \in Users |-> NilBytes]
    /\ dnsT0 = [t \in Users |-> ZeroTime]
    /\ dnsErr = [t \in Users |-> Nil]
    /\ dnsClock = [t \in Users |-> StartTime]
    /\ dnsTrace = [t \in Users |-> <<>>]
    /\ dnsRets = [t \in Users |-> <<>>]
    /\ IdleButDNS

\* DNSExchangeLogContext.LogStart
LogStart(c, t0) ==
    [msg |-> "dnsExchangeStart", call |-> c, deadline |-> dnsIn.deadline,
     serverProtocol |-> ServerProtocol(dnsIn.kind), t |-> t0]

\* DNSExchangeLogContext.LogDone
LogDone(c, t0, err) ==
    [msg |-> "dnsExchangeDone", call |-> c, deadline |-> dnsIn.deadline,
     err |-> err, errClass |-> Classify("errclass", err),
     serverProtocol |-> ServerProtocol(dnsIn.kind), t0 |-> t0, t |-> dnsClock[c[1]]]

\* the event of the function MakeQueryObserver returns
QueryEvent(c, t0, rawQuery) ==
    [msg |-> "dnsQuery", call |-> c, serverProtocol |-> ServerProtocol(dnsIn.kind),
     dnsRawQuery |-> rawQuery, t |-> t0]

\* the event of the function MakeResponseObserver returns: *rqr is read
\* when the response is observed
ResponseEvent(c, t0, rqr, rawResp) ==
    [msg |-> "dnsResponse", call |-> c, serverProtocol |-> ServerProtocol(dnsIn.kind),
     dnsRawQuery |-> rqr, t0 |-> t0, t |-> dnsClock[c[1]], dnsRawResponse |-> rawResp]

\* a call of a collaborator and the error it returned
Collab(name, c, err) == [msg |-> name, call |-> c, err |-> err]

\* Exchange of any wrapper, up to and including LogStart: t0 := c.TimeNow();
\* var rqr []byte; lc := &DNSExchangeLogContext{...}; the transport and its
\* observers (for DoH they are made later); lc.LogStart(t0, deadline)
Exchange_start(t) ==
    /\ dnsPc[t] = "idle"
    /\ Exchanges < MaxExchanges
    /\ dnsCall' = [dnsCall EXCEPT ![t] = @ + 1]
    /\ dnsT0' = [dnsT0 EXCEPT ![t] = dnsClock[t]]
    /\ dnsClock' = [dnsClock EXCEPT ![t] = @ + 1]
    /\ dnsRqr' = [dnsRqr EXCEPT ![t] = NilBytes]
    /\ dnsErr' = [dnsErr EXCEPT ![t] = Nil]
    /\ dnsTrace' = [dnsTrace EXCEPT ![t] = Append(@, LogStart(<<t, dnsCall[t] + 1>>, dnsClock[t]))]
    /\ dnsPc' = [dnsPc EXCEPT ![t] = IF dnsIn.kind = "doh" THEN "newRequest" ELSE "exchange"]
    /\ UNCHANGED <<dnsIn, dnsRets, notDNS>>

\* mutant: the capture slot belongs to the wrapper, not to the call
queryObserver_SharedSlot(t, rawQuery) ==
    /\ dnsTrace' = [dnsTrace EXCEPT ![t] = Append(@, QueryEvent(CallId(t), dnsT0[t], rawQuery))]
    /\ dnsRqr' = [u \in Users |-> rawQuery]

\* the function MakeQueryObserver returns, called with the raw query:
\* log dnsQuery, then *rqr = rawQuery
queryObserver(t, rawQuery) ==
    /\ dnsTrace' = [dnsTrace EXCEPT ![t] = Append(@, QueryEvent(CallId(t), dnsT0[t], rawQuery))]
    /\ dnsRqr' = [dnsRqr EXCEPT ![t] = rawQuery]

\* ---- DNSOverUDPConn, DNSOverTCPConn, DNSOverTLSConn ----

\* txp.ExchangeWithConn / txp.ExchangeWithStreamOpener: the transport has
\* serialized the query and calls txp.ObserveRawQuery
transport_ObserveRawQuery(t) ==
    /\ dnsIn.kind # "doh"
    /\ dnsPc[t] = "exchange"
    /\ queryObserver(t, RawQuery(CallId(t)))
    /\ dnsPc' = [dnsPc EXCEPT ![t] = "sent"]
    /\ UNCHANGED <<dnsIn, dnsCall, dnsT0, dnsErr, dnsClock, dnsRets, notDNS>>

\* the transport has read a response and calls txp.ObserveRawResponse
transport_ObserveRawResponse(t) ==
    /\ dnsIn.kind # "doh"
    /\ dnsPc[t] = "sent"
    /\ dnsTrace' = [dnsTrace EXCEPT ![t] = Append(@,
          ResponseEvent(CallId(t), dnsT0[t], dnsRqr[t], RawResponse(CallId(t))))]
    /\ dnsClock' = [dnsClock EXCEPT ![t] = @ + 1]
    /\ dnsPc' = [dnsPc EXCEPT ![t] = "received"]
    /\ UNCHANGED <<dnsIn, dnsCall, dnsRqr, dnsT0, dnsErr, dnsRets, notDNS>>

\* the arguments a transport would pass to its dialer
SentinelNetworks == {"udp", "tcp"}
SentinelAddrs == {"0.0.0.0:0", "8.8.8.8:53"}

\* mutant: the sentinel refuses to dial "udp" with an error instead of a panic
dnsUnusedDialer_DialContext_RefusesUDP(deadline, network, address) ==
    IF network = "udp"
    THEN [panic |-> FALSE, conn |-> NilConn, err |-> ErrRefused]
    ELSE [panic |-> TRUE, conn |-> NilConn, err |-> Nil]

\* dnsUnusedDialer.DialContext: panic("nop: DNS transport must not dial; ...")
\* whatever the context, the network and the address
dnsUnusedDialer_DialContext(deadline, network, address) ==
    [panic |-> TRUE, conn |-> NilConn, err |-> Nil]

\* the transport of the UDP, TCP or TLS wrapper calls the dialer it was
\* built with, dnsUnusedDialer{}, in the course of an exchange: the panic
\* unwinds Exchange, which neither logs nor returns
transport_DialContext(t, network, address) ==
    /\ dnsIn.kind # "doh"
    /\ dnsPc[t] \in {"exchange", "sent"}
    /\ LET r == dnsUnusedDialer_DialContext(dnsIn.deadline, network, address) IN
        /\ dnsTrace' = [dnsTrace EXCEPT ![t] = Append(@,
              [msg |-> "dnsUnusedDialer.DialContext", call |-> CallId(t),
               network |-> network, address |-> address,
               panic |-> r.panic, conn |-> r.conn, err |-> r.err])]
        /\ dnsPc' = [dnsPc EXCEPT ![t] = IF r.panic THEN "panicked" ELSE @]
    /\ UNCHANGED <<dnsIn, dnsCall, dnsRqr, dnsT0, dnsErr, dnsClock, dnsRets, notDNS>>

\* the errors the transport may return at each point of the exchange
TransportErrors(pc) ==
    CASE pc = "exchange" -> {ErrSend}
      [] pc = "sent"     -> {ErrIO, ErrTimedOut}
      [] pc = "received" -> {Nil, ErrDecode}

\* mutant: the done event is logged without the error
Exchange_return_LogsNil(t, err) ==
    /\ dnsIn.kind # "doh"
    /\ dnsPc[t] \in {"exchange", "sent", "received"}
    /\ err \in TransportErrors(dnsPc[t])
    /\ dnsTrace' = [dnsTrace EXCEPT ![t] = Append(@, LogDone(CallId(t), dnsT0[t], Nil))]
    /\ dnsClock' = [dnsClock EXCEPT ![t] = @ + 1]
    /\ dnsRets' = [dnsRets EXCEPT ![t] = Append(@,
          [resp |-> IF err = Nil THEN Decoded(CallId(t)) ELSE NilResponse, err |-> err])]
    /\ dnsPc' = [dnsPc EXCEPT ![t] = "idle"]
    /\ UNCHANGED <<dnsIn, dnsCall, dnsRqr, dnsT0, dnsErr, notDNS>>

\* mutant: a failed Exchange closes the owned connection before it returns
Exchange_return_ClosesOnError(t, err) ==
    /\ dnsIn.kind # "doh"
    /\ dnsPc[t] \in {"exchange", "sent", "received"}
    /\ err \in TransportErrors(dnsPc[t])
    /\ dnsTrace' = [dnsTrace EXCEPT ![t] =
          IF err = Nil THEN Append(@, LogDone(CallId(t), dnsT0[t], err))
          ELSE Append(Append(@, LogDone(CallId(t), dnsT0[t], err)),
                      Collab("conn.Close", CallId(t), Nil))]
    /\ dnsClock' = [dnsClock EXCEPT ![t] = @ + 1]
    /\ dnsRets' = [dnsRets EXCEPT ![t] = Append(@,
          [resp |-> IF err = Nil THEN Decoded(CallId(t)) ELSE NilResponse, err |-> err])]
    /\ dnsPc' = [dnsPc EXCEPT ![t] = "idle"]
    /\ UNCHANGED <<dnsIn, dnsCall, dnsRqr, dnsT0, dnsErr, notDNS>>

\* Exchange of the UDP, TCP and TLS wrappers, from the transport's return:
\* resp, err := txp.Exchange...; lc.LogDone(t0, deadline, err); return resp, err
Exchange_return(t, err) ==
    /\ dnsIn.kind # "doh"
    /\ dnsPc[t] \in {"exchange", "sent", "received"}
    /\ err \in TransportErrors(dnsPc[t])
    /\ dnsTrace' = [dnsTrace EXCEPT ![t] = Append(@, LogDone(CallId(t), dnsT0[t], err))]
    /\ dnsClock' = [dnsClock EXCEPT ![t] = @ + 1]
    /\ dnsRets' = [dnsRets EXCEPT ![t] = Append(@,
          [resp |-> IF err = Nil THEN Decoded(CallId(t)) ELSE NilResponse, err |-> err])]
    /\ dnsPc' = [dnsPc EXCEPT ![t] = "idle"]
    /\ UNCHANGED <<dnsIn, dnsCall, dnsRqr, dnsT0, dnsErr, notDNS>>

\* ---- DNSOverHTTPSConn ----

\* what a dnsoverhttps helper taking a hook does: it succeeds after calling
\* the hook, or fails before or after calling it
HookOutcomes == {"ok", "errBeforeHook", "errAfterHook"}

\* DNSOverHTTPSConn.Exchange: httpReq, queryMsg, err := dnsoverhttps.
\* NewRequestWithHook(ctx, query, c.url, lc.MakeQueryObserver(t0, &rqr))
DNSOverHTTPSConn_Exchange_newRequest(t, outcome) ==
    /\ dnsIn.kind = "doh"
    /\ dnsPc[t] = "newRequest"
    /\ LET err == IF outcome = "ok" THEN Nil ELSE ErrBadURL IN
        /\ IF outcome = "errBeforeHook"
           THEN /\ dnsTrace' = [dnsTrace EXCEPT ![t] = Append(@, Collab("NewRequestWithHook", CallId(t), err))]
                /\ UNCHANGED dnsRqr
           ELSE /\ dnsTrace' = [dnsTrace EXCEPT ![t] = Append(Append(@,
                                   QueryEvent(CallId(t), dnsT0[t], RawQuery(CallId(t)))),
                                   Collab("NewRequestWithHook", CallId(t), err))]
                /\ dnsRqr' = [dnsRqr EXCEPT ![t] = RawQuery(CallId(t))]
        /\ dnsErr' = [dnsErr EXCEPT ![t] = err]
        /\ dnsPc' = [dnsPc EXCEPT ![t] = IF err # Nil THEN "finish" ELSE "roundTrip"]
    /\ UNCHANGED <<dnsIn, dnsCall, dnsT0, dnsClock, dnsRets, notDNS>>

\* DNSOverHTTPSConn.Exchange: hc.RoundTrip(httpReq), up to the transport's
\* round trip: t0 := hc.TimeNow(); httpLogRoundTripStart; hc.txp.RoundTrip(req)
DNSOverHTTPSConn_Exchange_roundTrip(t) ==
    /\ dnsIn.kind = "doh"
    /\ dnsPc[t] = "roundTrip"
    /\ dnsTrace' = [dnsTrace EXCEPT ![t] = Append(Append(@,
          [msg |-> "httpRoundTripStart", call |-> CallId(t), t |-> dnsClock[t]]),
          [msg |-> "txp.RoundTrip", call |-> CallId(t)])]
    /\ dnsClock' = [dnsClock EXCEPT ![t] = @ + 1]
    /\ dnsPc' = [dnsPc EXCEPT ![t] = "inRoundTrip"]
    /\ UNCHANGED <<dnsIn, dnsCall, dnsRqr, dnsT0, dnsErr, dnsRets, notDNS>>

\* mutant: a failed round trip does not end the exchange
DNSOverHTTPSConn_Exchange_roundTrip_return_IgnoresError(t, err) ==
    /\ dnsIn.kind = "doh"
    /\ dnsPc[t] = "inRoundTrip"
    /\ dnsTrace' = [dnsTrace EXCEPT ![t] = Append(Append(@,
          [msg |-> "httpRoundTripDone", call |-> CallId(t), err |-> err,
           errClass |-> Classify("errclass", err), t |-> dnsClock[t]]),
          Collab("HTTPConn.RoundTrip", CallId(t), err))]
    /\ dnsClock' = [dnsClock EXCEPT ![t] = @ + 1]
    /\ dnsErr' = [dnsErr EXCEPT ![t] = err]
    /\ dnsPc' = [dnsPc EXCEPT ![t] = "readResponse"]
    /\ UNCHANGED <<dnsIn, dnsCall, dnsRqr, dnsT0, dnsRets, notDNS>>

\* the transport's round trip returns: httpLogRoundTripDone; hc.RoundTrip
\* returns nil, err or the response; Exchange goes on only if err == nil
DNSOverHTTPSConn_Exchange_roundTrip_return(t, err) ==
    /\ dnsIn.kind = "doh"
    /\ dnsPc[t] = "inRoundTrip"
    /\ dnsTrace' = [dnsTrace EXCEPT ![t] = Append(Append(@,
          [msg |-> "httpRoundTripDone", call |-> CallId(t), err |-> err,
           errClass |-> Classify("errclass", err), t |-> dnsClock[t]]),
          Collab("HTTPConn.RoundTrip", CallId(t), err))]
    /\ dnsClock' = [dnsClock EXCEPT ![t] = @ + 1]
    /\ dnsErr' = [dnsErr EXCEPT ![t] = err]
    /\ dnsPc' = [dnsPc EXCEPT ![t] = IF err # Nil THEN "finish" ELSE "readResponse"]
    /\ UNCHANGED <<dnsIn, dnsCall, dnsRqr, dnsT0, dnsRets, notDNS>>

\* DNSOverHTTPSConn.Exchange: resp, err := dnsoverhttps.ReadResponseWithHook(
\* ctx, httpResp, queryMsg, lc.MakeResponseObserver(t0, &rqr))
DNSOverHTTPSConn_Exchange_readResponse(t, outcome) ==
    /\ dnsIn.kind = "doh"
    /\ dnsPc[t] = "readResponse"
    /\ LET err == IF outcome = "ok" THEN Nil ELSE ErrDecode IN
        /\ IF outcome = "errBeforeHook"
           THEN /\ dnsTrace' = [dnsTrace EXCEPT ![t] = Append(@, Collab("ReadResponseWithHook", CallId(t), err))]
                /\ UNCHANGED dnsClock
           ELSE /\ dnsTrace' = [dnsTrace EXCEPT ![t] = Append(Append(@,
                      ResponseEvent(CallId(t), dnsT0[t], dnsRqr[t], RawResponse(CallId(t)))),
                      Collab("ReadResponseWithHook", CallId(t), err))]
                /\ dnsClock' = [dnsClock EXCEPT ![t] = @ + 1]
        /\ dnsErr' = [dnsErr EXCEPT ![t] = err]
    /\ dnsPc' = [dnsPc EXCEPT ![t] = "finish"]
    /\ UNCHANGED <<dnsIn, dnsCall, dnsRqr, dnsT0, dnsRets, notDNS>>

\* DNSOverHTTPSConn.Exchange, each of its three ends: lc.LogDone(t0,
\* deadline, err), then return nil, err or return resp, err
DNSOverHTTPSConn_Exchange_return(t) ==
    /\ dnsIn.kind = "doh"
    /\ dnsPc[t] = "finish"
    /\ dnsTrace' = [dnsTrace EXCEPT ![t] = Append(@, LogDone(CallId(t), dnsT0[t], dnsErr[t]))]
    /\ dnsClock' = [dnsClock EXCEPT ![t] = @ + 1]
    /\ dnsRets' = [dnsRets EXCEPT ![t] = Append(@,
          [resp |-> IF dnsErr[t] = Nil THEN Decoded(CallId(t)) ELSE NilResponse,
           err |-> dnsErr[t]])]
    /\ dnsPc' = [dnsPc EXCEPT ![t] = "idle"]
    /\ UNCHANGED <<dnsIn, dnsCall, dnsRqr, dnsT0, dnsErr, notDNS>>

NextDNS ==
    \E t \in Users :
        \/ Exchange_start(t)
        \/ transport_ObserveRawQuery(t)
        \/ transport_ObserveRawResponse(t)
        \/ \E network \in SentinelNetworks, address \in SentinelAddrs :
              transport_DialContext(t, network, address)
        \/ \E err \in {Nil, ErrSend, ErrIO, ErrTimedOut, ErrDecode} : Exchange_return(t, err)
        \/ \E outcome \in HookOutcomes : DNSOverHTTPSConn_Exchange_newRequest(t, outcome)
        \/ DNSOverHTTPSConn_Exchange_roundTrip(t)
        \/ \E err \in {Nil, ErrRoundTrip} : DNSOverHTTPSConn_Exchange_roundTrip_return(t, err)
        \/ \E outcome \in HookOutcomes : DNSOverHTTPSConn_Exchange_readResponse(t, outcome)
        \/ DNSOverHTTPSConn_Exchange_return(t)

SpecDNS == InitDNS /\ [][NextDNS]_vars

\* ------------------------------------------------------------------------
\* One pipeline run on one logger:
\* Compose4(ConnectFunc, ObserveConnFunc, CancelWatchFunc, TLSHandshakeFunc)
\* ------------------------------------------------------------------------

\* the most Read/Write calls the TLS engine makes during one handshake
MaxHandshakeIO == 2

\* the contexts a caller may pass: with or without a deadline
Contexts == [id : {"caller"}, deadline : {ZeroTime, SomeDeadline}]

\* the goroutine that calls the pipeline
Pipeline == "pipeline"

\* one event on the shared logger: its message, the operation it belongs
\* to, the goroutine that emitted it and its "err" attribute
Event(msg, op, thr, err) == [msg |-> msg, op |-> op, thr |-> thr, err |-> err]

InitRun ==
    /\ runCtx \in Contexts
    /\ runPc = "connect"
    /\ runStageCtx = <<>>
    /\ runCollabCtx = <<>>
    /\ runLog = <<>>
    /\ runCtxDone = FALSE
    /\ runCb = "unregistered"
    /\ runOnce = "free"
    /\ runClosed = FALSE
    /\ runIO = 0
    /\ runIOKind = "none"
    /\ runErr = Nil
    /\ runRet = NotReturned
    /\ IdleButRun

\* a variant of compose2.Call that hands its stages a context derived with
\* context.WithTimeout
compose2_Call_ctx_WithTimeout(ctx) == [id |-> "derived", deadline |-> StartTime + 1]

\* compose2.Call: "c.op1.Call(ctx, input)" and "c.op2.Call(ctx, res)" pass
\* Call's own ctx parameter
compose2_Call_ctx(ctx) == ctx

\* ConnectFunc.Call up to the dial: the stage is invoked and logs connectStart
pipeline_ConnectFunc_Call_start ==
    /\ runPc = "connect"
    /\ runStageCtx' = Append(runStageCtx, compose2_Call_ctx(runCtx))
    /\ runLog' = Append(runLog, Event("connectStart", <<"connect", 0>>, Pipeline, Nil))
    /\ runPc' = "dial"
    /\ UNCHANGED <<runCtx, runCollabCtx, runCtxDone, runCb, runOnce, runClosed,
                   runIO, runIOKind, runErr, runRet>>
    /\ UNCHANGED notRun

\* ConnectFunc.Call: DialContext(ctx, ...) returns, connectDone is logged and
\* the pipeline stops on an error
pipeline_ConnectFunc_Call_dial(err) ==
    /\ runPc = "dial"
    /\ runCollabCtx' = Append(runCollabCtx,
           [callee |-> "Dialer.DialContext", ctx |-> runStageCtx[Len(runStageCtx)]])
    /\ runLog' = Append(runLog, Event("connectDone", <<"connect", 0>>, Pipeline, err))
    /\ IF err # Nil
       THEN /\ runPc' = "done"
            /\ runRet' = [conn |-> NilConn, err |-> err]
       ELSE /\ runPc' = "observe"
            /\ UNCHANGED runRet
    /\ UNCHANGED <<runCtx, runStageCtx, runCtxDone, runCb, runOnce, runClosed,
                   runIO, runIOKind, runErr>>
    /\ UNCHANGED notRun

\* ObserveConnFunc.Call wraps the connection and logs nothing
pipeline_ObserveConnFunc_Call ==
    /\ runPc = "observe"
    /\ runStageCtx' = Append(runStageCtx, compose2_Call_ctx(runCtx))
    /\ runPc' = "cancelwatch"
    /\ UNCHANGED <<runCtx, runCollabCtx, runLog, runCtxDone, runCb, runOnce,
                   runClosed, runIO, runIOKind, runErr, runRet>>
    /\ UNCHANGED notRun

\* CancelWatchFunc.Call: context.AfterFunc(ctx, func() { conn.Close() })
pipeline_CancelWatchFunc_Call ==
    /\ runPc = "cancelwatch"
    /\ runStageCtx' = Append(runStageCtx, compose2_Call_ctx(runCtx))
    /\ runCollabCtx' = Append(runCollabCtx,
           [callee |-> "context.AfterFunc", ctx |-> compose2_Call_ctx(runCtx)])
    /\ runCb' = IF runCtxDone THEN "scheduled" ELSE "registered"
    /\ runPc' = "tls"
    /\ UNCHANGED <<runCtx, runLog, runCtxDone, runOnce, runClosed, runIO,
                   runIOKind, runErr, runRet>>
    /\ UNCHANGED notRun

\* a variant of TLSHandshakeFunc.Call that logs tlsHandshakeDone before it
\* calls HandshakeContext
pipeline_TLSHandshakeFunc_Call_start_LogsDoneEarly ==
    /\ runPc = "tls"
    /\ runStageCtx' = Append(runStageCtx, compose2_Call_ctx(runCtx))
    /\ runLog' = runLog \o
           <<Event("tlsHandshakeStart", <<"tls", 0>>, Pipeline, Nil),
             Event("tlsHandshakeDone", <<"tls", 0>>, Pipeline, Nil)>>
    /\ runCollabCtx' = Append(runCollabCtx,
           [callee |-> "TLSConn.HandshakeContext", ctx |-> compose2_Call_ctx(runCtx)])
    /\ runPc' = "handshake"
    /\ UNCHANGED <<runCtx, runCtxDone, runCb, runOnce, runClosed, runIO,
                   runIOKind, runErr, runRet>>
    /\ UNCHANGED notRun

\* TLSHandshakeFunc.Call up to the handshake: logs tlsHandshakeStart and
\* calls tconn.HandshakeContext(ctx)
pipeline_TLSHandshakeFunc_Call_start ==
    /\ runPc = "tls"
    /\ runStageCtx' = Append(runStageCtx, compose2_Call_ctx(runCtx))
    /\ runLog' = Append(runLog, Event("tlsHandshakeStart", <<"tls", 0>>, Pipeline, Nil))
    /\ runCollabCtx' = Append(runCollabCtx,
           [callee |-> "TLSConn.HandshakeContext", ctx |-> compose2_Call_ctx(runCtx)])
    /\ runPc' = "handshake"
    /\ UNCHANGED <<runCtx, runCtxDone, runCb, runOnce, runClosed, runIO,
                   runIOKind, runErr, runRet>>
    /\ UNCHANGED notRun

\* the handshake calls Read or Write on the connection it was given:
\* observedConn logs readStart / writeStart and calls the raw connection
pipeline_observedConn_IO_start(kind) ==
    /\ runPc = "handshake"
    /\ runErr = Nil
    /\ runIO < MaxHandshakeIO
    /\ runIO' = runIO + 1
    /\ runIOKind' = kind
    /\ runLog' = Append(runLog, Event(kind \o "Start", <<"io", runIO + 1>>, Pipeline, Nil))
    /\ runPc' = "io"
    /\ UNCHANGED <<runCtx, runStageCtx, runCollabCtx, runCtxDone, runCb, runOnce,
                   runClosed, runErr, runRet>>
    /\ UNCHANGED notRun

\* the raw connection's Read or Write returns and observedConn logs
\* readDone / writeDone
pipeline_observedConn_IO_done(err) ==
    /\ runPc = "io"
    /\ \/ runClosed /\ err = ErrClosed
       \/ ~runClosed /\ err \in {Nil, ErrIO}
    /\ runLog' = Append(runLog, Event(runIOKind \o "Done", <<"io", runIO>>, Pipeline, err))
    /\ runErr' = err
    /\ runPc' = "handshake"
    /\ UNCHANGED <<runCtx, runStageCtx, runCollabCtx, runCtxDone, runCb, runOnce,
                   runClosed, runIO, runIOKind, runRet>>
    /\ UNCHANGED notRun

\* HandshakeContext returns: a failed Read or Write fails the handshake,
\* otherwise the peer decides; Call logs tlsHandshakeDone
pipeline_TLSHandshakeFunc_Call_done(err) ==
    /\ runPc = "handshake"
    /\ IF runErr # Nil THEN err = runErr ELSE err \in {Nil, ErrHandshake}
    /\ runLog' = Append(runLog, Event("tlsHandshakeDone", <<"tls", 0>>, Pipeline, err))
    /\ runErr' = err
    /\ runPc' = "finish"
    /\ UNCHANGED <<runCtx, runStageCtx, runCollabCtx, runCtxDone, runCb, runOnce,
                   runClosed, runIO, runIOKind, runRet>>
    /\ UNCHANGED notRun

\* TLSHandshakeFunc.finish: on an error conn.Close(), which reaches
\* cancelWatchedConn.Close: c.stop(), then c.Conn.Close()
pipeline_TLSHandshakeFunc_finish ==
    /\ runPc = "finish"
    /\ IF runErr = Nil
       THEN /\ runPc' = "done"
            /\ runRet' = [conn |-> "tlsconn", err |-> Nil]
            /\ UNCHANGED runCb
       ELSE /\ runPc' = "close"
            /\ runCb' = IF runCb = "registered" THEN "stopped" ELSE runCb
            /\ UNCHANGED runRet
    /\ UNCHANGED <<runCtx, runStageCtx, runCollabCtx, runLog, runCtxDone, runOnce,
                   runClosed, runIO, runIOKind, runErr>>
    /\ UNCHANGED notRun

\* observedConn.Close called by a goroutine: closeonce.Do runs the function
\* once, and a second caller waits for the first and gets net.ErrClosed
observedConn_Close_enter(thr) ==
    /\ runOnce \in {"free", "done"}
    /\ IF runOnce = "free"
       THEN /\ runOnce' = thr
            /\ runLog' = Append(runLog, Event("closeStart", <<"close", 0>>, thr, Nil))
       ELSE UNCHANGED <<runOnce, runLog>>

\* observedConn.Close inside closeonce.Do: the raw connection is closed
\* and closeDone is logged
observedConn_Close_leave(thr) ==
    /\ runOnce = thr
    /\ runClosed' = TRUE
    /\ runOnce' = "done"
    /\ runLog' = Append(runLog, Event("closeDone", <<"close", 0>>, thr, Nil))

\* the pipeline's goroutine enters observedConn.Close
pipeline_Close_start ==
    /\ runPc = "close"
    /\ observedConn_Close_enter(Pipeline)
    /\ IF runOnce = "free"
       THEN runPc' = "closing" /\ UNCHANGED runRet
       ELSE runPc' = "done" /\ runRet' = [conn |-> NilConn, err |-> runErr]
    /\ UNCHANGED <<runCtx, runStageCtx, runCollabCtx, runCtxDone, runCb, runClosed,
                   runIO, runIOKind, runErr>>
    /\ UNCHANGED notRun

\* the pipeline's goroutine leaves observedConn.Close and finish returns
\* nil and the handshake's error
pipeline_Close_done ==
    /\ runPc = "closing"
    /\ observedConn_Close_leave(Pipeline)
    /\ runPc' = "done"
    /\ runRet' = [conn |-> NilConn, err |-> runErr]
    /\ UNCHANGED <<runCtx, runStageCtx, runCollabCtx, runCtxDone, runCb, runIO,
                   runIOKind, runErr>>
    /\ UNCHANGED notRun

\* the caller's context becomes done: the caller cancels it or its
\* deadline passes
pipeline_context_Cancel ==
    /\ ~runCtxDone
    /\ runPc # "done"
    /\ runCtxDone' = TRUE
    /\ runCb' = IF runCb = "registered" THEN "scheduled" ELSE runCb
    /\ UNCHANGED <<runCtx, runPc, runStageCtx, runCollabCtx, runLog, runOnce,
                   runClosed, runIO, runIOKind, runErr, runRet>>
    /\ UNCHANGED notRun

\* the AfterFunc goroutine runs "conn.Close()" on the observed connection
pipeline_afterFunc_Close_start ==
    /\ runCb = "scheduled"
    /\ observedConn_Close_enter(Callback)
    /\ runCb' = IF runOnce = "free" THEN "closing" ELSE "done"
    /\ UNCHANGED <<runCtx, runPc, runStageCtx, runCollabCtx, runCtxDone, runClosed,
                   runIO, runIOKind, runErr, runRet>>
    /\ UNCHANGED notRun

\* the AfterFunc goroutine leaves observedConn.Close
pipeline_afterFunc_Close_done ==
    /\ runCb = "closing"
    /\ observedConn_Close_leave(Callback)
    /\ runCb' = "done"
    /\ UNCHANGED <<runCtx, runPc, runStageCtx, runCollabCtx, runCtxDone, runIO,
                   runIOKind, runErr, runRet>>
    /\ UNCHANGED notRun

NextRun ==
    \/ pipeline_ConnectFunc_Call_start
    \/ \E err \in {Nil, ErrRefused, ErrTimedOut} : pipeline_ConnectFunc_Call_dial(err)
    \/ pipeline_ObserveConnFunc_Call
    \/ pipeline_CancelWatchFunc_Call
    \/ pipeline_TLSHandshakeFunc_Call_start
    \/ \E kind \in {"read", "write"} : pipeline_observedConn_IO_start(kind)
    \/ \E err \in {Nil, ErrIO, ErrClosed} : pipeline_observedConn_IO_done(err)
    \/ \E err \in {Nil, ErrHandshake, ErrIO, ErrClosed} : pipeline_TLSHandshakeFunc_Call_done(err)
    \/ pipeline_TLSHandshakeFunc_finish
    \/ pipeline_Close_start
    \/ pipeline_Close_done
    \/ pipeline_context_Cancel
    \/ pipeline_afterFunc_Close_start
    \/ pipeline_afterFunc_Close_done

SpecRun == InitRun /\ [][NextRun]_vars

\* ------------------------------------------------------------------------
\* spanid.go: NewSpanID
\* ------------------------------------------------------------------------

\* the most NewSpanID calls in one process
MaxSpanIDs == 3

\* the clock: milliseconds since the epoch and the sequence values that
\* stand for the fraction of a millisecond; any reading may follow any
\* other, so the clock may stall or step back
ClockMillis == 0..2
SeqRange == 2

\* the random bits of an identifier
RandomBits == {0, 1}

\* the version-7 generator: the identifier holds the timestamp, the
\* version, a sequence value and random bits; the timestamp and sequence
\* are those of the clock reading, or one past the last value issued when
\* the reading is not later than it
uuid_NewV7(last, milli, frac, rand) ==
    LET read == milli * SeqRange + frac
        now  == IF read <= last THEN last + 1 ELSE read
    IN  [uuid |-> [milli |-> now \div SeqRange, version |-> 7,
                   seq |-> now % SeqRange, rand |-> rand],
         last |-> now]

\* the version-4 generator: random bits only
uuid_NewRandom(rand) == [milli |-> rand, version |-> 4, seq |-> rand, rand |-> rand]

\* UUID.String: the fields as fixed-width digits, most significant first
UUID_String(u) ==
    <<u.milli \div 16, u.milli % 16, u.version, u.seq, u.rand>>

InitSpan ==
    /\ spanLast = 0
    /\ spanReads = <<>>
    /\ spanIDs = <<>>
    /\ IdleButSpan

\* a variant of NewSpanID that returns a random, version-4 identifier
NewSpanID_Random(milli, frac, rand) ==
    /\ Len(spanIDs) < MaxSpanIDs
    /\ spanIDs' = Append(spanIDs, UUID_String(uuid_NewRandom(rand)))
    /\ spanReads' = Append(spanReads, milli * SeqRange + frac)
    /\ UNCHANGED <<spanLast, notSpan>>

\* NewSpanID: "return runtimex.PanicOnError1(uuid.NewV7()).String()"
NewSpanID(milli, frac, rand) ==
    /\ Len(spanIDs) < MaxSpanIDs
    /\ LET r == uuid_NewV7(spanLast, milli, frac, rand) IN
        /\ spanIDs' = Append(spanIDs, UUID_String(r.uuid))
        /\ spanLast' = r.last
    /\ spanReads' = Append(spanReads, milli * SeqRange + frac)
    /\ UNCHANGED notSpan

NextSpan ==
    \E milli \in ClockMillis, frac \in 0..(SeqRange - 1), rand \in RandomBits :
        NewSpanID(milli, frac, rand)

SpecSpan == InitSpan /\ [][NextSpan]_vars

\* ------------------------------------------------------------------------
\* compose.go: Apply and ConstFunc.  One Call of Apply(fn, input), where fn
\* is a stage or a ComposeN pipeline of the stages 1..nStages and res
\* holds the bound input
\* ------------------------------------------------------------------------

\* the only value of type Unit
UnitValue == -1

\* the inputs bound by Apply and the values lifted by ConstFunc
BoundInputs == {Zero, 7, PipelineInput}

InitApply ==
    /\ nStages \in 1..3
    /\ stageOutcome \in [1..nStages -> StageOutcomes]
    /\ composePc = [at |-> "apply", lvl |-> 0]
    /\ res \in BoundInputs
    /\ invoked = <<>>
    /\ pipeRet = [out |-> Zero, err |-> Nil]
    /\ IdleButCompose

\* a variant of apply.Call that hands fn the Unit it was called with
apply_Call_PassesUnit(fn, input, unit) == TreeCall(fn, unit)

\* apply.Call: "return b.fn.Call(ctx, b.input)", the Unit argument unused
apply_Call(fn, input, unit) == TreeCall(fn, input)

\* constFunc.Call: "return c.value, nil", the Unit argument unused
constFunc_Call(value, unit) == [out |-> value, err |-> Nil, invoked |-> <<>>]

\* compose2.Call over two Funcs given by their Call
compose2_Call(Op1(_), Op2(_), input) ==
    LET r1 == Op1(input)
    IN  IF r1.err # Nil
        THEN [out |-> Zero, err |-> r1.err, invoked |-> r1.invoked]
        ELSE LET r2 == Op2(r1.out)
             IN  [out |-> r2.out, err |-> r2.err, invoked |-> r1.invoked \o r2.invoked]

\* the caller invokes Apply(fn, res).Call(ctx, Unit{})
Apply_Call ==
    /\ composePc.at = "apply"
    /\ LET r == apply_Call(RightFold(1, nStages), res, UnitValue) IN
        /\ pipeRet' = [out |-> r.out, err |-> r.err]
        /\ invoked' = r.invoked
    /\ composePc' = [at |-> "applied", lvl |-> 0]
    /\ UNCHANGED <<nStages, stageOutcome, res, notCompose>>

NextApply == Apply_Call

SpecApply == InitApply /\ [][NextApply]_vars

\* ------------------------------------------------------------------------
\* observeconn.go: ObserveConnFunc.Call and the methods of observedConn,
\* called one after the other by one caller
\* ------------------------------------------------------------------------

\* the most method calls made on one observed connection
MaxObsCalls == 2

\* len(buf) of a Read or Write, and the argument of a deadline setter
BufferSizes == {2, 4}
Deadlines == {ZeroTime, SomeDeadline}

\* the connections handed to ObserveConnFunc.Call: a TCP connection that
\* keeps reporting its addresses once closed, and a UDP connection that
\* reports none once closed and whose Close fails
UnderlyingConns ==
    {[laddr |-> "192.0.2.1:54321", raddr |-> "8.8.8.8:443", network |-> "tcp",
      keepsAddr |-> TRUE, closeErr |-> Nil, closed |-> FALSE],
     [laddr |-> "192.0.2.1:40000", raddr |-> "8.8.8.8:53", network |-> "udp",
      keepsAddr |-> FALSE, closeErr |-> ErrIO, closed |-> FALSE]}

\* safeconn.LocalAddr(conn), safeconn.RemoteAddr(conn): the string form of
\* the address the connection reports now, "" when it reports none
conn_LocalAddr(c) == IF c.closed /\ ~c.keepsAddr THEN "" ELSE c.laddr
conn_RemoteAddr(c) == IF c.closed /\ ~c.keepsAddr THEN "" ELSE c.raddr

\* what the underlying Read or Write may return for a buffer of that size
IOResults(c, size) ==
    IF c.closed THEN {[n |-> 0, err |-> ErrClosed]}
    ELSE {[n |-> size, err |-> Nil], [n |-> 1, err |-> ErrIO],
          [n |-> 0, err |-> ErrTimedOut]}

\* what the underlying SetDeadline, SetReadDeadline, SetWriteDeadline may return
SetterResults(c) == IF c.closed THEN {ErrClosed} ELSE {Nil, ErrIO}

InitObs ==
    /\ obsOp \in [ErrClassifier : Classifiers]
    /\ obsConn \in UnderlyingConns
    /\ obsWrap = [wrapped |-> FALSE, laddr |-> "", protocol |-> "", raddr |-> "",
                  closeonce |-> FALSE]
    /\ obsClock = StartTime
    /\ obsTrace = <<>>
    /\ obsAddrQueries = <<>>
    /\ obsRets = <<>>
    /\ IdleButObs

\* a variant of the logging that asks the connection for its addresses at
\* every event
observedConn_logAddrs_Live ==
    [localAddr |-> conn_LocalAddr(obsConn), protocol |-> obsConn.network,
     remoteAddr |-> conn_RemoteAddr(obsConn), queries |-> <<"log", "log">>]

\* slog.String("localAddr", c.laddr), slog.String("protocol", c.protocol),
\* slog.String("remoteAddr", c.raddr): the fields of the observedConn, and
\* no call on the underlying connection
observedConn_logAddrs ==
    [localAddr |-> obsWrap.laddr, protocol |-> obsWrap.protocol,
     remoteAddr |-> obsWrap.raddr, queries |-> <<>>]

\* one log event of the observed connection
ObsEvent(msg, arg, n, err, t0, t) ==
    [msg |-> msg, arg |-> arg, n |-> n, err |-> err,
     errClass |-> Classify(obsOp.ErrClassifier, err),
     localAddr |-> observedConn_logAddrs.localAddr,
     protocol |-> observedConn_logAddrs.protocol,
     remoteAddr |-> observedConn_logAddrs.remoteAddr, t0 |-> t0, t |-> t]

\* one call of a method of the underlying connection and what it returned
ConnCall(method, arg, n, err) ==
    [msg |-> method, arg |-> arg, n |-> n, err |-> err, errClass |-> "",
     localAddr |-> "", protocol |-> "", remoteAddr |-> "", t0 |-> ZeroTime,
     t |-> ZeroTime]

\* the caller may make another call on the observed connection
obsCallable ==
    /\ obsWrap.wrapped
    /\ Len(obsRets) < MaxObsCalls

\* the call returns (n, err) to the caller
obsReturn(op, arg, n, err) ==
    obsRets' = Append(obsRets, [op |-> op, arg |-> arg, n |-> n, err |-> err])

\* ObserveConnFunc.Call: laddr: safeconn.LocalAddr(conn), protocol:
\* safeconn.Network(conn), raddr: safeconn.RemoteAddr(conn)
ObserveConnFunc_Call ==
    /\ ~obsWrap.wrapped
    /\ obsWrap' = [wrapped |-> TRUE, laddr |-> conn_LocalAddr(obsConn),
                   protocol |-> obsConn.network, raddr |-> conn_RemoteAddr(obsConn),
                   closeonce |-> FALSE]
    /\ obsAddrQueries' = obsAddrQueries \o <<"Call", "Call">>
    /\ UNCHANGED <<obsOp, obsConn, obsClock, obsTrace, obsRets, notObs>>

\* Read and Write: log the start event, call the underlying method, log the
\* done event, return count and err
observedConn_io(op, size, r) ==
    /\ obsCallable
    /\ obsTrace' = obsTrace \o
          <<ObsEvent(IF op = "Read" THEN "readStart" ELSE "writeStart",
                     size, 0, Nil, ZeroTime, obsClock),
            ConnCall(op, size, r.n, r.err),
            ObsEvent(IF op = "Read" THEN "readDone" ELSE "writeDone",
                     0, r.n, r.err, obsClock, obsClock + 1)>>
    /\ obsClock' = obsClock + 2
    /\ obsAddrQueries' = obsAddrQueries \o observedConn_logAddrs.queries
                            \o observedConn_logAddrs.queries
    /\ obsReturn(op, size, r.n, r.err)
    /\ UNCHANGED <<obsOp, obsConn, obsWrap, notObs>>

\* observedConn.Read
observedConn_Read(size) ==
    \E r \in IOResults(obsConn, size) : observedConn_io("Read", size, r)

\* observedConn.Write
observedConn_Write(size) ==
    \E r \in IOResults(obsConn, size) : observedConn_io("Write", size, r)

\* a deadline setter: log one event, return what the underlying method,
\* given the same time, returns
observedConn_set(op, event, method, d, e) ==
    /\ obsCallable
    /\ obsTrace' = obsTrace \o
          <<ObsEvent(event, d, 0, Nil, ZeroTime, obsClock), ConnCall(method, d, 0, e)>>
    /\ obsClock' = obsClock + 1
    /\ obsAddrQueries' = obsAddrQueries \o observedConn_logAddrs.queries
    /\ obsReturn(op, d, 0, e)
    /\ UNCHANGED <<obsOp, obsConn, obsWrap, notObs>>

\* observedConn.SetDeadline
observedConn_SetDeadline(d) ==
    \E e \in SetterResults(obsConn) :
        observedConn_set("SetDeadline", "setDeadline", "SetDeadline", d, e)

\* mutant: SetReadDeadline sets the deadline of both directions
observedConn_SetReadDeadline_Both(d) ==
    \E e \in SetterResults(obsConn) :
        observedConn_set("SetReadDeadline", "setReadDeadline", "SetDeadline", d, e)

\* observedConn.SetReadDeadline
observedConn_SetReadDeadline(d) ==
    \E e \in SetterResults(obsConn) :
        observedConn_set("SetReadDeadline", "setReadDeadline", "SetReadDeadline", d, e)

\* observedConn.SetWriteDeadline
observedConn_SetWriteDeadline(d) ==
    \E e \in SetterResults(obsConn) :
        observedConn_set("SetWriteDeadline", "setWriteDeadline", "SetWriteDeadline", d, e)

\* observedConn.Close, the whole call: the first logs closeStart, closes
\* the underlying connection, logs closeDone and returns the result; a
\* later one returns net.ErrClosed
observedConn_Close_call ==
    /\ obsCallable
    /\ IF obsWrap.closeonce
       THEN /\ obsReturn("Close", 0, 0, ErrClosed)
            /\ UNCHANGED <<obsConn, obsWrap, obsClock, obsTrace, obsAddrQueries>>
       ELSE /\ obsWrap' = [obsWrap EXCEPT !.closeonce = TRUE]
            /\ obsConn' = [obsConn EXCEPT !.closed = TRUE]
            /\ obsTrace' = obsTrace \o
                  <<ObsEvent("closeStart", 0, 0, Nil, ZeroTime, obsClock),
                    ConnCall("Close", 0, 0, obsConn.closeErr),
                    ObsEvent("closeDone", 0, 0, obsConn.closeErr, obsClock, obsClock + 1)>>
            /\ obsClock' = obsClock + 2
            /\ obsAddrQueries' = obsAddrQueries \o observedConn_logAddrs.queries
                                    \o observedConn_logAddrs.queries
            /\ obsReturn("Close", 0, 0, obsConn.closeErr)
    /\ UNCHANGED <<obsOp, notObs>>

\* observedConn.LocalAddr, observedConn.RemoteAddr: "return
\* c.conn.LocalAddr()", "return c.conn.RemoteAddr()"
observedConn_Addr(op) ==
    /\ obsCallable
    /\ obsAddrQueries' = Append(obsAddrQueries, op)
    /\ obsReturn(op, 0, 0, Nil)
    /\ UNCHANGED <<obsOp, obsConn, obsWrap, obsClock, obsTrace, notObs>>

NextObs ==
    \/ ObserveConnFunc_Call
    \/ \E size \in BufferSizes : observedConn_Read(size)
    \/ \E size \in BufferSizes : observedConn_Write(size)
    \/ \E d \in Deadlines : observedConn_SetDeadline(d)
    \/ \E d \in Deadlines : observedConn_SetReadDeadline(d)
    \/ \E d \in Deadlines : observedConn_SetWriteDeadline(d)
    \/ observedConn_Close_call
    \/ observedConn_Addr("LocalAddr")
    \/ observedConn_Addr("RemoteAddr")

SpecObs == InitObs /\ [][NextObs]_vars

\* ------------------------------------------------------------------------
\* Claims
\* ------------------------------------------------------------------------

\* the stages that ran and failed
FailedStages == {k \in Range(invoked) : stageOutcome[k] # "ok"}

\* C1: in a pipeline built with Compose2..Compose8, once stage k has returned
\* an error no stage after k is ever invoked, and the error the pipeline
\* returns is exactly stage k's error.
C1_ShortCircuit ==
    \A k \in FailedStages :
        /\ \A j \in (k + 1)..nStages : j \notin Range(invoked)
        /\ composePc.at = "done"
        /\ pipeRet.err = StageErr(k)

\* C1 witness: a Compose8 pipeline whose middle stage failed after the
\* earlier stages ran
C1_Witness ==
    /\ nStages = MaxArity
    /\ composePc.at = "done"
    /\ \E k \in 2..(nStages - 1) : k \in FailedStages /\ Len(invoked) = k

\* the stage whose Call was invoked last
LastInvoked == invoked[Len(invoked)]

OtherUser(u) == CHOOSE v \in Users : v # u

\* user u made exactly n Close calls on the top wrapper, one after the
\* other, all returned, and no other caller thread called Close
ClosedInSequence(u, n) ==
    /\ Len(returned[u]) = n
    /\ stack[u] = <<>>
    /\ returned[OtherUser(u)] = <<>>
    /\ stack[OtherUser(u)] = <<>>

\* what a Close of layer i returns when that layer was closed before: a
\* net.Conn and an observedConn return net.ErrClosed, and a wrapper that
\* only delegates returns what the layer beneath it returns
RecloseResult(i) ==
    IF \E j \in 1..i : layers[j] \in {"netconn", "observe"} THEN ErrClosed ELSE rawErr

\* the context became done and one Close call was made on a Cancellation-Watch
\* wrapper, in any order, and both the call and the callback are over
CancelAndCloseOver ==
    /\ HasLayer("cancelwatch")
    /\ TopLayer = LayerOf("cancelwatch")
    /\ ctxDone
    /\ \E u \in Users : ClosedInSequence(u, 1)
    /\ afterFunc \in {"stopped", "finished"}

C3_ObservedCloseOnce ==
    HasLayer("observe") =>
        LET i == LayerOf("observe") IN
        /\ closeCalls[i - 1] <= 1
        /\ connLog \in {<<>>, <<"closeStart">>, <<"closeStart", "closeDone">>}
        /\ closeCalls[i - 1] = 1 => Len(connLog) >= 1
        /\ Len(connLog) = 2 => closeRets[i - 1] # {}
        /\ closeRets[i] # {} => Len(connLog) = 2
        /\ \A r \in closeRets[i] :
              IF r.ran THEN r.err = rawErr /\ [err |-> r.err, ran |-> TRUE] \in closeRets[i - 1]
              ELSE r.err = ErrClosed

\* C3 witness: three Close calls reached the observed connection, the first
\* ran and returned, another returned net.ErrClosed
C3_Witness ==
    /\ HasLayer("observe")
    /\ closeCalls[LayerOf("observe")] >= 3
    /\ \E r \in closeRets[LayerOf("observe")] : r.ran
    /\ \E r \in closeRets[LayerOf("observe")] : ~r.ran

\* a caller closed a Cancellation-Watch wrapper twice in sequence and the
\* context never became done
ClosedTwiceNotDone(u) ==
    /\ HasLayer("cancelwatch")
    /\ TopLayer = LayerOf("cancelwatch")
    /\ ~ctxDone
    /\ ClosedInSequence(u, 2)

WrapperKinds == {"httpconn", "dnsudp", "dnstcp", "dnstls", "doh"}

\* a caller closed an HTTPConn or a DNS wrapper twice in sequence
WrapperClosedTwice(u) ==
    /\ layers[TopLayer] \in WrapperKinds
    /\ ClosedInSequence(u, 2)

WatchedCloseCalls ==
    IF HasLayer("cancelwatch") THEN closeCalls[WatchedLayer] ELSE 0

\* C8: once CancelWatchFunc.Call has returned and the context is done
\* (before or after Call), the wrapped connection's Close is eventually
\* invoked, unless a caller calls Close on the wrapper; the callback is
\* fairly scheduled.
C8_ClosesWhenDone ==
    (HasLayer("cancelwatch") /\ built /\ ctxDone)
        ~> (\/ WatchedCloseCalls >= 1
            \/ \E u \in Users : stack[u] # <<>> \/ returned[u] # <<>>)

\* C8 witness: the context was already done when Call ran, no caller ever
\* called Close, and the callback closed the wrapped connection
C8_Witness ==
    /\ HasLayer("cancelwatch")
    /\ afterFunc = "finished"
    /\ closeCalls[WatchedLayer] = 1
    /\ closeCalls[LayerOf("cancelwatch")] = 0
    /\ \A u \in Users : stack[u] = <<>> /\ returned[u] = <<>>

\* a Close call on the wrapper has returned and the context is not done
ClosedBeforeDone ==
    /\ HasLayer("cancelwatch")
    /\ ~ctxDone
    /\ \E u \in Users : returned[u] # <<>>

\* C9: when Close on the wrapper returns before the context is done, the
\* callback is deregistered; from then on it stays deregistered, a later
\* cancellation never starts it, and the wrapped connection's Close is
\* invoked by Close calls on the wrapper only (once for one Close call).
C9_NoCloseAfterUnregister ==
    /\ [](ClosedBeforeDone => afterFunc = "stopped")
    /\ []((HasLayer("cancelwatch") /\ afterFunc = "stopped") =>
             /\ stack[Callback] = <<>>
             /\ closeCalls[WatchedLayer] <= closeCalls[LayerOf("cancelwatch")])
    /\ [][afterFunc = "stopped" => afterFunc' = "stopped"]_vars

\* C9 witness: Close returned, the callback is deregistered, the context
\* became done, and the wrapped connection was closed once
C9_Witness ==
    /\ HasLayer("cancelwatch")
    /\ afterFunc = "stopped"
    /\ ctxDone
    /\ \E u \in Users : ClosedInSequence(u, 1)
    /\ closeCalls[WatchedLayer] = 1

\* ---- ConnectFunc ----

C6_ClosedOnFailure ==
    (tlsPc = "returned" /\ tlsRet.err # Nil) =>
        /\ tlsIn.err # Nil
        /\ rawCloses >= 1
        /\ \A i \in DOMAIN rawReads : rawReads[i] = ErrClosed

\* C6 witness: a handshake failed on a hostname mismatch, Call returned the
\* error and the raw connection was read afterwards
C6_Witness ==
    /\ tlsPc = "returned"
    /\ tlsRet = [conn |-> NilConn, err |-> ErrHostname]
    /\ rawReads = <<ErrClosed>>

\* C11: when TLSHandshakeFunc.Call returns, it returns either the TLS
\* connection the engine built and a nil error, or a nil connection and the
\* error HandshakeContext produced, the very same value, be it one of the
\* certificate-validation errors inspected for logging or any other error.
C11_ErrorUnmodified ==
    tlsPc = "returned" =>
        /\ tlsRet.err = tlsIn.err
        /\ tlsRet.err = Nil => tlsRet.conn = TLSConnValue
        /\ tlsRet.err # Nil => tlsRet.conn = NilConn
        /\ Len(tlsLog) = 2
        /\ tlsLog[2].err = tlsRet.err

\* C11 witness: the handshake failed with an unknown-authority error whose
\* certificate was logged, and Call returned that error
C11_Witness ==
    /\ tlsPc = "returned"
    /\ tlsIn.err = ErrUnknownAuthority
    /\ tlsRet = [conn |-> NilConn, err |-> ErrUnknownAuthority]
    /\ tlsLog[2].tlsPeerCerts = <<"selfsigned">>

\* ---- HTTPConnFunc ----

\* the transport of the HTTPConn that Call returned
ReturnedTransport == httpRet.hc.txp

\* C13: HTTPConnFunc.Call selects the HTTP/2 transport if and only if the
\* input exposes a TLS connection state whose negotiated protocol is exactly
\* "h2"; for any other input it selects the HTTP/1.1 transport with
\* keep-alives disabled; either way it returns an HTTPConn owning the input
\* and a nil error.
C13_TransportByALPN ==
    httpPc = "returned" =>
        /\ ReturnedTransport.kind = "http2.Transport"
              <=> (httpIn.kind = "tls" /\ httpIn.alpn = "h2")
        /\ ReturnedTransport.kind # "http2.Transport" =>
              /\ ReturnedTransport.kind = "http.Transport"
              /\ ReturnedTransport.DisableKeepAlives
        /\ httpRet.hc.conn = ConnOf(httpIn)
        /\ httpRet.err = Nil

\* C13 witness: a TLS connection that negotiated "h2c" got the HTTP/1.1
\* transport
C13_Witness ==
    /\ httpPc = "returned"
    /\ httpIn = [kind |-> "tls", alpn |-> "h2c"]
    /\ ReturnedTransport.kind = "http.Transport"

\* C14: over all the invocations of the dial hooks of the transport that
\* Call built, only the first returns the established connection, and every
\* further one fails with no connection.
C14_SingleUseDial ==
    \A i \in DOMAIN httpDials :
        IF i = 1
        THEN httpDials[i].conn = ConnOf(httpIn) /\ httpDials[i].err = Nil
        ELSE httpDials[i].conn = NilConn /\ httpDials[i].err # Nil

\* C14 witness: the HTTP/1.1 transport dialled through DialContext, then
\* through DialTLSContext, which failed
C14_Witness ==
    /\ Len(httpDials) = 2
    /\ httpDials[1].hook = "DialContext"
    /\ httpDials[2].hook = "DialTLSContext"
    /\ httpDials[2].err = ErrNoConnReuse

\* ---- Exchange of the DNS wrappers ----

\* the positions, in caller t's trace, of the entries named msg of its n-th
\* Exchange call
TraceIdx(t, n, msg) ==
    {i \in DOMAIN dnsTrace[t] :
        dnsTrace[t][i].call = <<t, n>> /\ dnsTrace[t][i].msg = msg}

\* the n-th Exchange call of caller t has returned
ExchangeReturned(t, n) == n <= Len(dnsRets[t])

\* C15: every Exchange call, on any of the four wrappers, emits exactly one
\* dnsExchangeStart, and exactly one dnsExchangeDone by the time it returns,
\* whatever the return path; the start precedes and the done follows every
\* dnsQuery and dnsResponse event of the call, and the done event carries
\* the error that Exchange returns.
C15_OneStartOneDone ==
    \A t \in Users : \A n \in 1..dnsCall[t] :
        LET starts == TraceIdx(t, n, "dnsExchangeStart")
            dones  == TraceIdx(t, n, "dnsExchangeDone")
            mids   == TraceIdx(t, n, "dnsQuery") \cup TraceIdx(t, n, "dnsResponse")
        IN /\ Cardinality(starts) = 1
           /\ \A m \in mids : \A b \in starts : b < m
           /\ IF ExchangeReturned(t, n)
              THEN /\ Cardinality(dones) = 1
                   /\ \A d \in dones :
                         /\ dnsTrace[t][d].err = dnsRets[t][n].err
                         /\ \A m \in mids : m < d
              ELSE dones = {}

\* C15 witness: an Exchange over HTTPS failed to build its request and
\* returned, after the query was observed
C15_Witness ==
    /\ dnsIn.kind = "doh"
    /\ \E t \in Users :
          /\ dnsPc[t] = "idle"
          /\ dnsRets[t] = <<[resp |-> NilResponse, err |-> ErrBadURL]>>
          /\ TraceIdx(t, 1, "dnsQuery") # {}

\* the largest element of a non-empty set of numbers
SetMax(S) == CHOOSE j \in S : \A k \in S : k <= j

\* C16: each dnsResponse event carries as dnsRawQuery the raw query most
\* recently passed to the query observer of the same Exchange call, and never
\* a query observed by another Exchange call, earlier or concurrent.
C16_ResponseCarriesOwnQuery ==
    \A t \in Users : \A i \in DOMAIN dnsTrace[t] :
        dnsTrace[t][i].msg = "dnsResponse" =>
            LET c  == dnsTrace[t][i].call
                qs == {j \in 1..(i - 1) : /\ dnsTrace[t][j].msg = "dnsQuery"
                                          /\ dnsTrace[t][j].call = c}
            IN /\ IF qs = {}
                  THEN dnsTrace[t][i].dnsRawQuery = NilBytes
                  ELSE dnsTrace[t][i].dnsRawQuery = dnsTrace[t][SetMax(qs)].dnsRawQuery
               /\ dnsTrace[t][i].dnsRawQuery \in {NilBytes, RawQuery(c)}

\* C16 witness: the second Exchange of a caller logged a response with the
\* query of that second Exchange, while the other caller had observed a
\* query of its own
C16_Witness ==
    \E t \in Users :
        /\ \E i \in TraceIdx(t, 2, "dnsResponse") :
              dnsTrace[t][i].dnsRawQuery = RawQuery(<<t, 2>>)
        /\ TraceIdx(OtherUser(t), 1, "dnsQuery") # {}

\* C17: in DNSOverHTTPSConn.Exchange a failure to build the request returns
\* nil and that error without any round trip; a failed round trip returns
\* nil and the round trip's error without reading a response and without a
\* dnsResponse event; the error of reading the response is the error of the
\* Exchange.
C17_DoHErrorPaths ==
    dnsIn.kind = "doh" =>
        \A t \in Users : \A n \in 1..Len(dnsRets[t]) :
            /\ \A i \in TraceIdx(t, n, "NewRequestWithHook") :
                  dnsTrace[t][i].err # Nil =>
                      /\ dnsRets[t][n] = [resp |-> NilResponse, err |-> dnsTrace[t][i].err]
                      /\ TraceIdx(t, n, "httpRoundTripStart") = {}
                      /\ TraceIdx(t, n, "txp.RoundTrip") = {}
            /\ \A i \in TraceIdx(t, n, "HTTPConn.RoundTrip") :
                  dnsTrace[t][i].err # Nil =>
                      /\ dnsRets[t][n] = [resp |-> NilResponse, err |-> dnsTrace[t][i].err]
                      /\ TraceIdx(t, n, "ReadResponseWithHook") = {}
                      /\ TraceIdx(t, n, "dnsResponse") = {}
            /\ \A i \in TraceIdx(t, n, "ReadResponseWithHook") :
                  dnsRets[t][n].err = dnsTrace[t][i].err

\* C17 witness: an Exchange over HTTPS returned the error of its round trip
C17_Witness ==
    /\ dnsIn.kind = "doh"
    /\ \E t \in Users :
          /\ dnsRets[t] = <<[resp |-> NilResponse, err |-> ErrRoundTrip]>>
          /\ TraceIdx(t, 1, "HTTPConn.RoundTrip") # {}

\* the positions, in caller t's trace, of the calls of the dial sentinel
SentinelCalls(t) ==
    {i \in DOMAIN dnsTrace[t] : dnsTrace[t][i].msg = "dnsUnusedDialer.DialContext"}

\* C18: the dial sentinel handed to the DNS transports panics on every
\* DialContext, whatever the context, network and address: it returns no
\* connection and no error, the Exchange that reached it never returns, and
\* so no Exchange that returned has dialled.
C18_SentinelPanics ==
    \A t \in Users :
        /\ \A i \in SentinelCalls(t) :
              /\ dnsTrace[t][i].panic
              /\ dnsTrace[t][i].conn = NilConn
              /\ dnsTrace[t][i].err = Nil
              /\ i = Len(dnsTrace[t])
              /\ dnsPc[t] = "panicked"
              /\ ~ExchangeReturned(t, dnsTrace[t][i].call[2])
        /\ dnsPc[t] = "panicked" => SentinelCalls(t) # {}

\* C18 witness: a transport dialled "udp" through the sentinel after it had
\* sent its query, and the Exchange panicked
C18_Witness ==
    \E t \in Users :
        /\ dnsPc[t] = "panicked"
        /\ TraceIdx(t, 1, "dnsQuery") # {}
        /\ \E i \in SentinelCalls(t) :
              dnsTrace[t][i].network = "udp" /\ dnsTrace[t][i].address = "8.8.8.8:53"

\* ---- httpBodyWrapper ----

\* the names of the events of the body's trace, in order
EventNames == [i \in DOMAIN bodyTrace |-> bodyTrace[i].ev]

\* the sequence of n copies of x
Repeat(x, n) == [i \in 1..n |-> x]

\* thread t is the body's single caller: the other thread made no call
SingleCaller(t) ==
    \A o \in BodyThreads \ {t} : bodyCalls[o] = <<>>

\* the calls of thread t are k Reads then one Close, and all have returned
ReadsThenClose(t, k) ==
    /\ bodyCalls[t] = Repeat("Read", k) \o <<"Close">>
    /\ bodyPc[t] = "idle"

\* C7: for a body used by a single caller, as long as no Read was called no
\* httpBodyStreamStart and no httpBodyStreamDone is emitted, also by Close;
\* one or more Reads followed by Close emit exactly one httpBodyStreamStart,
\* before the first underlying Read, and exactly one httpBodyStreamDone,
\* after the underlying Close.
C7_LazyBodyLogging ==
    \A t \in BodyThreads : SingleCaller(t) =>
        /\ "Read" \notin Range(bodyCalls[t]) =>
              Range(EventNames) \subseteq {"body.Close"}
        /\ \A k \in 1..(MaxBodyCalls - 1) : ReadsThenClose(t, k) =>
              EventNames = <<"httpBodyStreamStart">> \o Repeat("body.Read", k)
                              \o <<"body.Close", "httpBodyStreamDone">>

\* C7 witness: a single caller read twice and closed
C7_Witness ==
    \E t \in BodyThreads : SingleCaller(t) /\ ReadsThenClose(t, 2)

\* ---- one pipeline run on one logger ----

\* the events the goroutine that runs the pipeline emitted, in order
PipelineLog == SelectSeq(runLog, LAMBDA e : e.thr = Pipeline)

\* C19 as stated: no event of a different operation appears between an
\* operation's start event and its done event.
C19_Original ==
    \A i, j \in 1..Len(runLog) :
        (i < j /\ runLog[i].op = runLog[j].op) =>
            \A k \in (i + 1)..(j - 1) : runLog[k].op = runLog[i].op

\* C19: within one pipeline run the events of the pipeline's goroutine are
\* nested rather than disjoint.  The only events between an operation's
\* start and its done are the readStart/readDone and writeStart/writeDone
\* pairs of the observed connection, they fall between tlsHandshakeStart
\* and tlsHandshakeDone, and each pair lies whole and adjacent inside the
\* handshake; connectStart/connectDone and closeStart/closeDone enclose
\* nothing.
C19_ProperlyNested ==
    LET log == PipelineLog IN
    /\ \A i, j \in 1..Len(log) :
           (i < j /\ log[i].op = log[j].op) =>
               \A k \in (i + 1)..(j - 1) :
                   /\ log[i].msg = "tlsHandshakeStart"
                   /\ log[j].msg = "tlsHandshakeDone"
                   /\ log[k].op[1] = "io"
                   /\ \E m \in (i + 1)..(j - 1) : m # k /\ log[m].op = log[k].op
    /\ \A k \in 1..Len(log) :
           log[k].op[1] = "io" =>
               /\ \E i \in 1..(k - 1) : log[i].msg = "tlsHandshakeStart"
               /\ \A j \in 1..(k - 1) : log[j].msg # "tlsHandshakeDone"

\* C19 witness: a run whose handshake wrote and read on the observed
\* connection before it completed, all of it logged between the
\* handshake's start and done events
C19_Witness ==
    /\ runPc = "done"
    /\ runRet.err = Nil
    /\ \E i, j, k \in 1..Len(runLog) :
           /\ i < k /\ k < j
           /\ runLog[i].msg = "tlsHandshakeStart"
           /\ runLog[k].msg = "readDone"
           /\ runLog[j].msg = "tlsHandshakeDone"

\* C20: every primitive passes the caller's context on unchanged: each
\* stage of the pipeline receives the context the caller gave to the
\* pipeline, and DialContext, context.AfterFunc and HandshakeContext
\* receive that same context, neither derived nor replaced.
C20_ContextUnchanged ==
    /\ \A i \in 1..Len(runStageCtx) : runStageCtx[i] = runCtx
    /\ \A i \in 1..Len(runCollabCtx) : runCollabCtx[i].ctx = runCtx

\* C20 witness: a complete run under a context with a deadline, in which
\* all four stages and their three collaborators received a context
C20_Witness ==
    /\ runPc = "done"
    /\ runCtx.deadline = SomeDeadline
    /\ Len(runStageCtx) = 4
    /\ {runCollabCtx[i].callee : i \in 1..Len(runCollabCtx)} =
           {"Dialer.DialContext", "context.AfterFunc", "TLSConn.HandshakeContext"}

\* ---- the error classifier ----

\* the connect input without its classifier: what two runs that differ
\* only in the classifier have in common
ConnectInputSansClassifier ==
    [k \in DOMAIN connectIn \ {"classifier"} |-> connectIn[k]]

\* what ConnectFunc.Call returns and the calls it makes on the dialer, as
\* functions of the position in Call, the input without the classifier
\* and the dialer's behaviour
ConnectObservable(pc, in, outcome) ==
    [ret   |-> IF pc = "returned" THEN DialContext(outcome) ELSE NotReturned,
     calls |-> IF pc \in {"start", "dial"} THEN <<>>
               ELSE <<[deadline |-> in.deadline, network |-> in.network,
                       address |-> AddrPortString(in.addr)]>>]

HandshakeDoneEvents == {e \in Range(tlsLog) : e.msg = "tlsHandshakeDone"}

\* the certificate errors somewhere in the handshake error's tree
ErrorsInTree == Range(ErrorTree(tlsIn.err))

\* C22: the tlsPeerCerts of tlsHandshakeDone is the single certificate of
\* the hostname-mismatch error if the error matches one; else that of the
\* unknown-authority error; else that of the certificate-invalid error;
\* and only when none of the three matches, the connection state's peer
\* certificates in order, an empty list when there are none.
C22_PeerCertsPriority ==
    \A e \in HandshakeDoneEvents :
        e.tlsPeerCerts =
            IF ErrHostname \in ErrorsInTree THEN <<"mismatching">>
            ELSE IF ErrUnknownAuthority \in ErrorsInTree THEN <<"selfsigned">>
            ELSE IF ErrCertInvalid \in ErrorsInTree THEN <<"expired">>
            ELSE tlsIn.peerCerts

\* C22 witness: the handshake failed with an error that matches all three
\* shapes, the hostname error last in its tree, while the connection state
\* held certificates; the event names the hostname error's certificate
C22_Witness ==
    /\ tlsIn.err = ErrJoinedCerts
    /\ Len(tlsIn.peerCerts) = 2
    /\ \E e \in HandshakeDoneEvents : e.tlsPeerCerts = <<"mismatching">>

\* ---- the caller's tls.Config ----

\* C23: across any number of TLSHandshakeFunc.Call invocations the
\* caller-supplied tls.Config is never written, its clock included, and
\* each call hands the engine a clone of it whose clock is the configured
\* TimeNow.
C23_ConfigNeverMutated ==
    [][/\ tlsOpConfig' = tlsOpConfig
       /\ tlsOpConfig.Time = "unset"
       /\ (tlsPc = "start" /\ tlsPc' = "handshake") =>
              /\ tlsEngineConfig' = [tlsOpConfig EXCEPT !.Time = "TimeNow"]
              /\ tlsEngineConfig' # tlsOpConfig']_vars

\* C23 witness: the second call on the same TLSHandshakeFunc has handed
\* its clone to the engine and the original still has no clock
C23_Witness ==
    /\ tlsClock > StartTime + 2
    /\ tlsPc \in {"handshake", "finish", "returned"}
    /\ tlsOpConfig.Time = "unset"
    /\ tlsEngineConfig.Time = "TimeNow"

\* ---- HTTPConn.RoundTrip ----

\* the positions in the trace of the entries of RoundTrip call n with
\* message msg
RtIdx(n, msg) == {i \in DOMAIN rtTrace : rtTrace[i].call = n /\ rtTrace[i].msg = msg}

\* C24: each HTTPConn.RoundTrip call emits exactly one httpRoundTripStart
\* before invoking the transport and exactly one httpRoundTripDone after
\* the transport returns; if the transport fails, RoundTrip returns a nil
\* response with that same error and creates no body wrapper, otherwise it
\* returns the transport's response with its body replaced by the
\* observing wrapper.
C24_RoundTripSpan ==
    /\ \A n \in 1..(Len(rtRets) + 1) :
           RtIdx(n, "txp.RoundTrip") # {} =>
               /\ Cardinality(RtIdx(n, "httpRoundTripStart")) = 1
               /\ Cardinality(RtIdx(n, "txp.RoundTrip")) = 1
               /\ \A i \in RtIdx(n, "httpRoundTripStart"), j \in RtIdx(n, "txp.RoundTrip") : i < j
               /\ \A j \in RtIdx(n, "txp.RoundTrip"), k \in RtIdx(n, "httpRoundTripDone") : j < k
    /\ \A n \in 1..Len(rtRets) :
           /\ Cardinality(RtIdx(n, "httpRoundTripStart")) = 1
           /\ Cardinality(RtIdx(n, "httpRoundTripDone")) = 1
           /\ \A k \in RtIdx(n, "httpRoundTripDone") :
                  IF rtTrace[k].err # Nil
                  THEN /\ rtRets[n] = [resp |-> NilHTTPResponse, err |-> rtTrace[k].err]
                       /\ RtIdx(n, "httpBodyWrap") = {}
                  ELSE /\ rtRets[n].err = Nil
                       /\ rtRets[n].resp.status = rtTrace[k].status
                       /\ rtRets[n].resp.body = httpBodyWrap(TransportBody)
                       /\ Cardinality(RtIdx(n, "httpBodyWrap")) = 1

\* C24 witness: on one HTTPConn a round trip failed in the transport and
\* the next one succeeded and returned a wrapped body
C24_Witness ==
    /\ Len(rtRets) = 2
    /\ rtRets[1].err = ErrIO /\ rtRets[1].resp = NilHTTPResponse
    /\ rtRets[2].err = Nil /\ rtRets[2].resp.body = httpBodyWrap(TransportBody)

\* ---- ComposeN and the bracketings of Compose2 ----

\* the left fold Compose2(Compose2(..., op_j-1), op_j) of the stages i..j
RECURSIVE LeftFold(_, _)
LeftFold(i, j) == IF i = j THEN <<i>> ELSE <<LeftFold(i, j - 1), <<j>>>>

\* what the ComposeN pipeline's Call returned and the stages it invoked
PipelineResult == [out |-> pipeRet.out, err |-> pipeRet.err, invoked |-> invoked]

\* C25: for n from 3 to 8, ComposeN(op1..opn) behaves exactly like the
\* right fold of Compose2 and like every other bracketing of the same
\* stages: same output, same error, the same stages invoked in the same
\* left-to-right order, each at most once per Call.
C25_AnyBracketing ==
    composePc.at = "done" =>
        LET trees == Bracketings(1, nStages) IN
        /\ RightFold(1, nStages) \in trees
        /\ LeftFold(1, nStages) \in trees
        /\ \A tree \in trees : TreeCall(tree, PipelineInput) = PipelineResult
        /\ \A i, j \in 1..Len(invoked) : i < j => invoked[i] < invoked[j]

\* C25 witness: a Compose8 pipeline whose sixth stage failed while
\* returning an output, which the left fold meets as the last stage of an
\* inner Compose2 and the right fold as the first
C25_Witness ==
    /\ nStages = MaxArity
    /\ composePc.at = "done"
    /\ stageOutcome[6] = "errWithOutput"
    /\ invoked = <<1, 2, 3, 4, 5, 6>>
    /\ TreeCall(LeftFold(1, nStages), PipelineInput) = PipelineResult

\* ---- Apply and ConstFunc ----

\* the Func that Apply was given: a stage or a pipeline of the stages
AppliedFunc == RightFold(1, nStages)

\* what Compose2(ConstFunc(res), fn).Call(ctx, Unit{}) returns
ComposedWithConst ==
    compose2_Call(LAMBDA u : constFunc_Call(res, u),
                  LAMBDA x : TreeCall(AppliedFunc, x), UnitValue)

\* C26: for every operation fn and input x, Apply(fn, x).Call(ctx, Unit{})
\* returns exactly what fn.Call(ctx, x) returns, value and error, and is
\* observationally equal to Compose2(ConstFunc(x), fn); ConstFunc(x)
\* ignores its input and always succeeds with x.
C26_ApplyIsComposeConst ==
    /\ \A x \in BoundInputs, u \in BoundInputs \cup {UnitValue} :
           constFunc_Call(x, u) = [out |-> x, err |-> Nil, invoked |-> <<>>]
    /\ composePc.at = "applied" =>
           /\ PipelineResult = TreeCall(AppliedFunc, res)
           /\ PipelineResult = ComposedWithConst

\* C26 witness: Apply over a pipeline whose last stage fails while
\* returning an output has returned that output and error
C26_Witness ==
    /\ composePc.at = "applied"
    /\ nStages = 3
    /\ stageOutcome[3] = "errWithOutput"
    /\ pipeRet.err = StageErr(3)
    /\ pipeRet.out # Zero
    /\ invoked = <<1, 2, 3>>

\* ---- the default classifier ----

\* C27 as stated: with the defaults set by NewConfig the classifier is a
\* no-op: the errClass label of every event is empty, for every error and
\* not only for nil.
C27_DefaultIsNoOp ==
    connectIn.classifier = NewConfig.ErrClassifier =>
        \A i \in 1..Len(connectLog) : connectLog[i].errClass = ""

\* ---- span identifiers ----

\* the order of two identifiers of the same length, digit by digit
LexLess(a, b) ==
    \E k \in 1..Len(a) : a[k] < b[k] /\ \A j \in 1..(k - 1) : a[j] = b[j]

\* C28: any sequence of NewSpanID calls yields pairwise distinct
\* identifiers in time order: an identifier generated later is greater
\* than every identifier generated before it.
C28_DistinctTimeOrdered ==
    \A i, j \in 1..Len(spanIDs) : i < j => LexLess(spanIDs[i], spanIDs[j])

\* C28 witness: three identifiers, the second generated at the same clock
\* reading as the first and the third at an earlier one
C28_Witness ==
    /\ Len(spanIDs) = 3
    /\ spanReads[2] = spanReads[1]
    /\ spanReads[3] < spanReads[2]

\* ---- the wrapped body under concurrent Read and Close ----

\* the positions in the trace of the events with the given name
BodyEventIdx(ev) == {i \in 1..Len(bodyTrace) : bodyTrace[i].ev = ev}

\* C29: in every interleaving of Read and Close, an emitted httpBodyStreamDone
\* carries as t0 the timestamp the first Read recorded, which is the t of
\* httpBodyStreamStart wherever that event is in the log, and never the zero
\* time.
C29_DoneCarriesReadTime ==
    \A i \in BodyEventIdx("httpBodyStreamDone") :
        /\ bodyTrace[i].t0 = bodyT0
        /\ bodyTrace[i].t0 # ZeroTime
        /\ \A j \in BodyEventIdx("httpBodyStreamStart") :
              bodyTrace[j].t = bodyTrace[i].t0

\* C29 witness: Close emitted httpBodyStreamDone while the first Read of
\* another caller was still inside readOnce.Do
C29_Witness ==
    /\ BodyEventIdx("httpBodyStreamDone") # {}
    /\ \E t \in BodyThreads : bodyPc[t] = "r_log"

\* C30: in every interleaving of concurrent Read and Close calls, no
\* httpBodyStreamDone is in the log without an httpBodyStreamStart before it.
C30_DoneNeverBeforeStart ==
    \A i \in BodyEventIdx("httpBodyStreamDone") :
        \E j \in BodyEventIdx("httpBodyStreamStart") : j < i

\* C30 amended: an httpBodyStreamDone has an httpBodyStreamStart before it
\* whenever one caller made all the calls; when Close ran concurrently with
\* the first Read it can come first, and then the first Read, which has
\* already published the did-read flag, emits httpBodyStreamStart as the very
\* next event of the log.
C30_StartBeforeOrRightAfterDone ==
    \A i \in BodyEventIdx("httpBodyStreamDone") :
        /\ \/ \E j \in BodyEventIdx("httpBodyStreamStart") : j < i
           \/ /\ i < Len(bodyTrace)
              /\ bodyTrace[i + 1].ev = "httpBodyStreamStart"
           \/ /\ i = Len(bodyTrace)
              /\ didRead
              /\ readOnce.lock # NoThread
              /\ bodyPc[readOnce.lock] = "r_log"
        /\ (\E t \in BodyThreads : SingleCaller(t)) =>
              \E j \in BodyEventIdx("httpBodyStreamStart") : j < i

\* C30 witness: the log holds httpBodyStreamDone and, right after it, the
\* httpBodyStreamStart of the Read that Close overtook
C30_Witness ==
    \E i \in BodyEventIdx("httpBodyStreamDone") :
        /\ i < Len(bodyTrace)
        /\ bodyTrace[i + 1].ev = "httpBodyStreamStart"

\* the body was closed and every call on the wrapper has returned
BodyQuiescent ==
    /\ bodyClosed
    /\ closeOnce.done
    /\ \A t \in BodyThreads : bodyPc[t] = "idle"

\* thread t called Read before its first Close
ReadBeforeFirstClose(t) ==
    \E i \in 1..Len(bodyCalls[t]) :
        /\ bodyCalls[t][i] = "Read"
        /\ \A j \in 1..(i - 1) : bodyCalls[t][j] # "Close"

\* C31 as stated: once the body is closed and every call has returned,
\* httpBodyStreamDone was emitted if and only if some Read was called, in
\* whatever order the calls came.
C31_DoneIffAnyRead ==
    BodyQuiescent =>
        (BodyEventIdx("httpBodyStreamDone") # {}
            <=> \E t \in BodyThreads : "Read" \in Range(bodyCalls[t]))

\* C31 amended: once the body is closed and every call has returned,
\* httpBodyStreamDone was emitted only if a Read occurred, and it was
\* emitted whenever httpBodyStreamStart was logged before the underlying
\* Close; for a single caller it was emitted if and only if a Read came
\* before the first Close, so that a Read issued after Close leaves its
\* httpBodyStreamStart without a httpBodyStreamDone.
C31_DoneIffReadBeforeClose ==
    BodyQuiescent =>
        /\ BodyEventIdx("httpBodyStreamDone") # {} => didRead
        /\ (\E i \in BodyEventIdx("httpBodyStreamStart") :
                \E j \in BodyEventIdx("body.Close") : i < j)
              => BodyEventIdx("httpBodyStreamDone") # {}
        /\ \A t \in BodyThreads : SingleCaller(t) =>
              (BodyEventIdx("httpBodyStreamDone") # {} <=> ReadBeforeFirstClose(t))

\* C31 witness: a single caller read, closed and read again, and another
\* closed and then read
C31_Witness ==
    /\ BodyQuiescent
    /\ \E t \in BodyThreads :
          /\ SingleCaller(t)
          /\ bodyCalls[t] \in {<<"Read", "Close", "Read">>, <<"Close", "Read">>}

\* the Close calls that returned, as <<thread, position in its calls>>
ReturnedCloses ==
    {c \in BodyThreads \X (1..MaxBodyCalls) :
        /\ c[2] <= Len(bodyRets[c[1]])
        /\ bodyCalls[c[1]][c[2]] = "Close"}

\* C32: over any interleaving of Read and Close calls the underlying Close
\* is invoked at most once, at most one httpBodyStreamStart and at most one
\* httpBodyStreamDone are emitted, and every Close but the first returns nil:
\* at most one Close returns the underlying error, and it is a caller's
\* first Close.
C32_BodyAtMostOnce ==
    /\ Cardinality(BodyEventIdx("body.Close")) <= 1
    /\ Cardinality(BodyEventIdx("httpBodyStreamStart")) <= 1
    /\ Cardinality(BodyEventIdx("httpBodyStreamDone")) <= 1
    /\ Cardinality({c \in ReturnedCloses : bodyRets[c[1]][c[2]] # Nil}) <= 1
    /\ \A c, d \in ReturnedCloses :
          (c[1] = d[1] /\ d[2] < c[2]) => bodyRets[c[1]][c[2]] = Nil

\* C32 witness: the underlying Close fails, both callers have closed, one of
\* them twice, and a Read was made
C32_Witness ==
    /\ bodyCloseErr # Nil
    /\ didRead
    /\ \A t \in BodyThreads : \E c \in ReturnedCloses : c[1] = t
    /\ \E c, d \in ReturnedCloses : c[1] = d[1] /\ c[2] # d[2]

\* ---- ObserveConnFunc beneath CancelWatchFunc ----

\* the pipeline ran ObserveConnFunc and then CancelWatchFunc
ObserveThenWatch ==
    /\ HasLayer("observe")
    /\ HasLayer("cancelwatch")
    /\ LayerOf("observe") < LayerOf("cancelwatch")

\* a Close call on the outermost wrapper has returned, or the goroutine of
\* the cancellation callback has finished
CloseOrCallbackCompleted ==
    \/ \E u \in Users : returned[u] # <<>>
    \/ afterFunc = "finished"

\* C33: with ObserveConnFunc before CancelWatchFunc, whatever the
\* interleaving of the context becoming done and the Close calls on the
\* outer wrapper, the raw connection's Close is invoked at most once, and
\* exactly once as soon as one Close call has returned or the callback has
\* finished.
C33_RawClosedExactlyOnce ==
    ObserveThenWatch =>
        /\ closeCalls[1] <= 1
        /\ CloseOrCallbackCompleted => closeCalls[1] = 1

\* C33 witness: on an HTTPConn over the two wrappers the callback has
\* finished and both callers have closed twice
C33_Witness ==
    /\ ObserveThenWatch
    /\ "httpconn" \in Range(layers)
    /\ afterFunc = "finished"
    /\ \A u \in Users : Len(returned[u]) = MaxCloseCalls
    /\ closeCalls[1] = 1

\* C34: while the context is not done and Close was not called on the
\* wrapper, the Close of the connection given to CancelWatchFunc.Call is
\* not invoked, neither by Call nor by the callback, which is not started.
C34_NoCloseWhileLive ==
    (HasLayer("cancelwatch") /\ ~ctxDone /\ closeCalls[LayerOf("cancelwatch")] = 0) =>
        /\ closeCalls[WatchedLayer] = 0
        /\ afterFunc \in {"unregistered", "registered"}
        /\ built => afterFunc = "registered"
        /\ stack[Callback] = <<>>

\* C34 witness: Call has returned, the context is not done, and a caller is
\* inside Close of the HTTPConn above the wrapper, which it has not reached
C34_Witness ==
    /\ HasLayer("cancelwatch")
    /\ built
    /\ ~ctxDone
    /\ closeCalls[LayerOf("cancelwatch")] = 0
    /\ closeCalls[WatchedLayer] = 0
    /\ \E u \in Users : stack[u] # <<>>

\* the names of the events ConnectFunc.Call logged, in order
ConnectEventNames == [i \in DOMAIN connectLog |-> connectLog[i].msg]

\* C35: a ConnectFunc.Call invokes DialContext once, success or failure,
\* with the configured network and the string form of the address, after
\* its one connectStart and before its one connectDone.
C35_OneDialBetweenEvents ==
    /\ connectPc = "start" => ConnectEventNames = <<>> /\ dialCalls = <<>>
    /\ connectPc = "dial" => ConnectEventNames = <<"connectStart">> /\ dialCalls = <<>>
    /\ connectPc = "dialed" => ConnectEventNames = <<"connectStart">> /\ Len(dialCalls) = 1
    /\ connectPc = "returned" =>
          ConnectEventNames = <<"connectStart", "connectDone">> /\ Len(dialCalls) = 1
    /\ \A i \in DOMAIN dialCalls :
          /\ dialCalls[i].network = connectIn.network
          /\ dialCalls[i].address = AddrPortString(connectIn.addr)

\* C35 witness: a Call to an IPv6 endpoint returned after a failed dial
C35_Witness ==
    /\ connectPc = "returned"
    /\ connectRet.err # Nil
    /\ connectIn.addr.v6
    /\ Len(dialCalls) = 1

\* ---- the observed connection ----

ConnMethods == {"Read", "Write", "SetDeadline", "SetReadDeadline", "SetWriteDeadline", "Close"}

\* the event a deadline setter logs, the events Read and Write log
SetterEvent(op) ==
    CASE op = "SetDeadline" -> "setDeadline"
      [] op = "SetReadDeadline" -> "setReadDeadline"
      [] op = "SetWriteDeadline" -> "setWriteDeadline"
IOStartEvent(op) == IF op = "Read" THEN "readStart" ELSE "writeStart"
IODoneEvent(op) == IF op = "Read" THEN "readDone" ELSE "writeDone"

\* what a call that returned r added to the trace, given as the trace
\* before and after it
ObsAdded(before, after) == SubSeq(after, Len(before) + 1, Len(after))

\* C36: a Read, Write, SetDeadline, SetReadDeadline or SetWriteDeadline on
\* an observed connection invokes the same method of the underlying
\* connection once, with the same argument, and returns its result; Read and
\* Write log one start event before and one done event after that call, a
\* deadline setter logs one event before it and nothing after.
C36_ObservedPassThrough ==
    [][(Len(obsRets') = Len(obsRets) + 1
          /\ obsRets'[Len(obsRets')].op \in ConnMethods \ {"Close"}) =>
        LET r == obsRets'[Len(obsRets')]
            new == ObsAdded(obsTrace, obsTrace')
            calls == SelectSeq(new, LAMBDA e : e.msg \in ConnMethods)
        IN  /\ calls = <<ConnCall(r.op, r.arg, r.n, r.err)>>
            /\ IF r.op \in {"Read", "Write"}
               THEN /\ Len(new) = 3
                    /\ new[1].msg = IOStartEvent(r.op) /\ new[1].arg = r.arg
                    /\ new[2].msg = r.op
                    /\ new[3].msg = IODoneEvent(r.op)
                    /\ new[3].n = r.n /\ new[3].err = r.err
                    /\ new[3].t0 = new[1].t
               ELSE /\ Len(new) = 2
                    /\ new[1].msg = SetterEvent(r.op) /\ new[1].arg = r.arg
                    /\ new[2].msg = r.op]_vars

\* C36 witness: a Read came back short with an error, and then
\* SetReadDeadline failed
C36_Witness ==
    /\ Len(obsRets) = 2
    /\ obsRets[1] = [op |-> "Read", arg |-> 4, n |-> 1, err |-> ErrIO]
    /\ obsRets[2].op = "SetReadDeadline" /\ obsRets[2].err = ErrIO

\* the log events of the observed connection, in order
ObsEvents == SelectSeq(obsTrace, LAMBDA e : e.msg \notin ConnMethods)

\* C37: every event of an observed connection carries the local address,
\* remote address and protocol the connection reported when
\* ObserveConnFunc.Call wrapped it, also after the connection was closed and
\* reports none; the only address queries on the underlying connection are
\* the ones Call made and the caller's own LocalAddr and RemoteAddr calls.
C37_AddressesCapturedOnce ==
    obsWrap.wrapped =>
        /\ \A i \in DOMAIN ObsEvents :
              /\ ObsEvents[i].localAddr = obsConn.laddr
              /\ ObsEvents[i].remoteAddr = obsConn.raddr
              /\ ObsEvents[i].protocol = obsConn.network
        /\ SelectSeq(obsAddrQueries, LAMBDA q : q \notin {"LocalAddr", "RemoteAddr"})
              = <<"Call", "Call">>
        /\ Len(SelectSeq(obsAddrQueries, LAMBDA q : q \in {"LocalAddr", "RemoteAddr"}))
              = Cardinality({k \in DOMAIN obsRets : obsRets[k].op \in {"LocalAddr", "RemoteAddr"}})

\* C37 witness: the connection was closed and reports no address any more,
\* and a Read made afterwards was logged
C37_Witness ==
    /\ obsConn.closed
    /\ conn_LocalAddr(obsConn) = ""
    /\ Len(ObsEvents) = 4
    /\ ObsEvents[2].msg = "closeDone"
    /\ ObsEvents[4].msg = "readDone"

\* ---- a missing handshake configuration ----

\* C38: NewTLSHandshakeFunc panics exactly when it is given a nil
\* tls.Config, and a Call on a TLSHandshakeFunc whose Config is nil panics
\* at once: the engine is not invoked, the clock is not read, no event is
\* logged, nothing is done on the connection and nothing is returned.
C38_NilConfigPanics ==
    [][/\ tlsPc = "new" =>
            tlsPc' = IF tlsOpConfig = NilTLSConfig THEN "newPanicked" ELSE "start"
       /\ (tlsPc = "start" /\ tlsOpConfig = NilTLSConfig) =>
            /\ tlsPc' = "configPanicked"
            /\ tlsLog' = <<>>
            /\ tlsRet' = NotReturned
            /\ UNCHANGED <<tlsEngineConfig, tlsClock, tlsLog, tlsConnCloses,
                           rawCloses, rawReads>>
       /\ tlsPc' = "configPanicked" => tlsOpConfig = NilTLSConfig
       /\ tlsPc \in {"newPanicked", "configPanicked"} => UNCHANGED tlsVars]_vars

\* C38 witness: a Call on a TLSHandshakeFunc with a nil Config has panicked
C38_Witness ==
    /\ tlsPc = "configPanicked"
    /\ tlsOpConfig = NilTLSConfig
    /\ tlsLog = <<>>

\* C39: Call does not panic whatever error the engine's handshake returns,
\* a certificate error that carries no certificate included: for every
\* handshake error it logs tlsHandshakeDone, closes the connection and
\* returns the error.
C39_NoPanicOnHandshakeError ==
    /\ tlsPc # "panicked"
    /\ (tlsPc = "returned" /\ tlsErr # Nil) =>
          /\ HandshakeDoneEvents # {}
          /\ tlsConnCloses = 1
          /\ tlsRet = [conn |-> NilConn, err |-> tlsErr]

\* ---- Exchange and the owned channel ----

\* what an Exchange does besides logging: the observers' events come from
\* the transport it delegates to, the other entries are its calls
ExchangeCalls ==
    {"NewRequestWithHook", "txp.RoundTrip", "HTTPConn.RoundTrip",
     "ReadResponseWithHook", "dnsUnusedDialer.DialContext"}
ExchangeEvents ==
    {"dnsExchangeStart", "dnsQuery", "dnsResponse", "dnsExchangeDone",
     "httpRoundTripStart", "httpRoundTripDone"}

\* C40: no Exchange of any of the four wrappers, successful or failed,
\* calls Close on the owned connection or HTTPConn: everything an Exchange
\* does is log and call the transport, the request and response helpers and
\* the owned HTTPConn's RoundTrip.
C40_ExchangeNeverCloses ==
    \A t \in Users : \A i \in DOMAIN dnsTrace[t] :
        /\ dnsTrace[t][i].msg \notin {"conn.Close", "HTTPConn.Close"}
        /\ dnsTrace[t][i].msg \in ExchangeCalls \cup ExchangeEvents

\* C40 witness: on one wrapper an Exchange failed and the next Exchange of
\* the same caller succeeded
C40_Witness ==
    \E t \in Users :
        /\ Len(dnsRets[t]) = 2
        /\ dnsRets[t][1].err # Nil
        /\ dnsRets[t][2].err = Nil

====
